---- MODULE Spec2Model ----
(***************************************************************************)
(* Racehorse-Memorial: the column sort engine (js/features/sort/sort.js)   *)
(* and the aggregation / time-statistics engine (js/pages/viz.js).         *)
(*                                                                         *)
(* Text.  A JavaScript string is modelled as a sequence of characters,     *)
(* each character one TLA+ string.  TLA+ strings are ASCII, so a CJK       *)
(* character is written as its pinyin with the tone number:                *)
(*    不 "bu4"   晚 "wan3"   于 "yu2"    至 "zhi4"   月 "yue4"   岁 "sui4"   *)
(*    约 "yue1"  期 "qi1"    间 "jian1"  年 "nian2"                         *)
(* A JavaScript value that is not a string is a record with another "t".   *)
(***************************************************************************)
EXTENDS Integers, Sequences, FiniteSets, TLC

VARIABLES
    deathText,      \* getDeathMonthBucket: the argument rawDeath
    bucket,         \* getDeathMonthBucket: what the call returned or threw
    yearRows,       \* renderForYear: the rows loadData resolved to
    currentYear,    \* the year of the page
    columnsByYear,  \* CONFIG.visualizations.columnsByYear
    panelsByYear,   \* CONFIG.visualizations.byYear
    timeZone,       \* the time zone the browser runs in
    timeStats,      \* computeTimeStats: what the call returned or threw
    aggregated,     \* aggregateForYear: what the call returned or threw
    render,         \* renderForYear: where it is, its panels, agg and timeStats
    exchangeRates,  \* CONFIG.exchangeRates.rates
    sortCall,       \* sortDataForYear: the arguments data, year, sortState
    heap,           \* the row objects and the arrays there are
    sortReturn,     \* sortDataForYear: what the call returned
    cellCall,       \* the call that computes one cell's sort value: its arguments
    cellValue,      \* the value that call returned
    appYear,        \* app.js: currentYear
    currentData,    \* app.js: currentData, the array loaded for a year, or null
    appSortState,   \* the sort controller's sortState
    recordModal,    \* whether the record sort dialog is displayed
    table,          \* what the table wrapper displays
    loads,          \* the calls of loadAndRender that have not finished
    refresh,        \* the rate refresh the page started: "pending" or "done"
    switched,       \* how many times the year has been switched
    lastEvent,      \* what the page handled last: a click, a choice, a load
    stored,         \* storage.js: the item of localStorage, parsed, or null
    now,            \* Date.now()
    rateCall,       \* refreshExchangeRatesIfNeeded: its arguments and where it is
    updates,        \* the rate controller: the rates of each call of onUpdated
    writes          \* the calls of setTheme and setExchangeRatesEntry made, in order

monthVars == <<deathText, bucket>>
vizInputs == <<yearRows, currentYear, columnsByYear, panelsByYear, timeZone>>
vizVars == <<vizInputs, timeStats, aggregated, render>>
cellVars == <<cellCall, cellValue>>
appVars ==
    <<appYear, currentData, appSortState, recordModal, table, loads, refresh, switched,
      lastEvent>>
sortVars == <<exchangeRates, sortCall, heap, sortReturn, cellVars, appVars>>
storeVars == <<stored, now, rateCall, updates, writes>>
vars == <<monthVars, vizVars, sortVars, storeVars>>

\* a call that has not been made yet
NotCalled == [ok |-> FALSE, err |-> "not called"]

----------------------------------------------------------------------------
(* JavaScript values and strings                                           *)

Str(chars) == [t |-> "string", s |-> chars]
Undefined == [t |-> "undefined"]
Null == [t |-> "null"]
IsString(v) == v.t = "string"

\* a row object is a function from its own property names to values; null is
\* what a dataset can hold in place of a row
IsPlainObject(r) == r # Null

Digits == {"0", "1", "2", "3", "4", "5", "6", "7", "8", "9"}
DigitValue == [c \in Digits |->
    CASE c = "0" -> 0 [] c = "1" -> 1 [] c = "2" -> 2 [] c = "3" -> 3
      [] c = "4" -> 4 [] c = "5" -> 5 [] c = "6" -> 6 [] c = "7" -> 7
      [] c = "8" -> 8 [] c = "9" -> 9]
DigitChar == <<"0", "1", "2", "3", "4", "5", "6", "7", "8", "9">>
Whitespace == {" "}

IsDigitAt(s, i) == i >= 1 /\ i <= Len(s) /\ s[i] \in Digits

\* Number("0315") for a run of digits s[from..to]
RECURSIVE DigitsToNumber(_, _, _)
DigitsToNumber(s, from, to) ==
    IF to < from THEN 0
    ELSE 10 * DigitsToNumber(s, from, to - 1) + DigitValue[s[to]]

\* String(n) for a non-negative integer
RECURSIVE NumberToString(_)
NumberToString(n) ==
    IF n < 10 THEN <<DigitChar[n + 1]>>
    ELSE Append(NumberToString(n \div 10), DigitChar[(n % 10) + 1])

\* String.prototype.trim
RECURSIVE TrimStart(_)
TrimStart(s) ==
    IF s # <<>> /\ Head(s) \in Whitespace THEN TrimStart(Tail(s)) ELSE s
RECURSIVE TrimEnd(_)
TrimEnd(s) ==
    IF s # <<>> /\ s[Len(s)] \in Whitespace
    THEN TrimEnd(SubSeq(s, 1, Len(s) - 1)) ELSE s
Trim(s) == TrimEnd(TrimStart(s))

\* String.prototype.includes
Includes(s, sub) ==
    \E i \in 1..(Len(s) - Len(sub) + 1) : SubSeq(s, i, i + Len(sub) - 1) = sub

SeqContains(q, x) == \E i \in 1..Len(q) : q[i] = x

RECURSIVE Concat(_)
Concat(parts) == IF parts = <<>> THEN <<>> ELSE Head(parts) \o Concat(Tail(parts))

\* the results of a call: a value, or a thrown Error
Ok(v) == [ok |-> TRUE, val |-> v]
Throw(what) == [ok |-> FALSE, err |-> what]

----------------------------------------------------------------------------
(* viz.js: text parsers                                                    *)

UNKNOWN_MONTH_BUCKET == <<"bu4", "que4", "ding4">>
NOT_LATER_THAN == <<"bu4", "wan3", "yu2">>
RANGE_TO == <<"zhi4">>

DateSeparators == {"/", "-"}

\* One attempt of /(\d{4})[\/-](\d{1,2})[\/-](\d{1,2})/ at position i: the
\* match (groups as numbers, "next" the index after it) or no match.  \d{1,2}
\* is greedy and backtracks: the month takes two digits when a separator and a
\* digit follow them, else one digit when a separator and a digit follow it.
MatchDateAt(s, i) ==
    LET four == \A k \in i..(i + 3) : IsDigitAt(s, k)
        sep1 == i + 4 <= Len(s) /\ s[i + 4] \in DateSeparators
        two == IsDigitAt(s, i + 5) /\ IsDigitAt(s, i + 6)
                  /\ i + 7 <= Len(s) /\ s[i + 7] \in DateSeparators
                  /\ IsDigitAt(s, i + 8)
        one == IsDigitAt(s, i + 5)
                  /\ i + 6 <= Len(s) /\ s[i + 6] \in DateSeparators
                  /\ IsDigitAt(s, i + 7)
        Groups(mEnd, dEnd) ==
            [found |-> TRUE,
             y |-> DigitsToNumber(s, i, i + 3),
             mo |-> DigitsToNumber(s, i + 5, mEnd),
             d |-> DigitsToNumber(s, mEnd + 2, dEnd),
             next |-> dEnd + 1]
        Day(mEnd) ==
            Groups(mEnd, IF IsDigitAt(s, mEnd + 3) THEN mEnd + 3 ELSE mEnd + 2)
    IN  IF ~(four /\ sep1) THEN [found |-> FALSE]
        ELSE IF two THEN Day(i + 6)
        ELSE IF one THEN Day(i + 5)
        ELSE [found |-> FALSE]

\* re.exec from lastIndex: the leftmost match at or after position i
RECURSIVE ExecDateFrom(_, _)
ExecDateFrom(s, i) ==
    LET Here(m) == IF m.found THEN m ELSE ExecDateFrom(s, i + 1)
    IN  IF i > Len(s) THEN [found |-> FALSE] ELSE Here(MatchDateAt(s, i))

\* the while loop with a match out of range left out of the dates, not thrown
RECURSIVE IsoOrSlashLoop_SkipInvalid(_, _, _)
IsoOrSlashLoop_SkipInvalid(s, i, out) ==
    LET Body(m) ==
            IF ~m.found THEN Ok(out)
            ELSE IF m.mo < 1 \/ m.mo > 12 \/ m.d < 1 \/ m.d > 31
                 THEN IsoOrSlashLoop_SkipInvalid(s, m.next, out)
            ELSE IsoOrSlashLoop_SkipInvalid(s, m.next,
                                            Append(out, [y |-> m.y, mo |-> m.mo, d |-> m.d]))
    IN  Body(ExecDateFrom(s, i))

\* the while loop of _isoOrSlashDates: the dates so far, or the first throw
RECURSIVE IsoOrSlashLoop(_, _, _)
IsoOrSlashLoop(s, i, out) ==
    LET Body(m) ==
            IF ~m.found THEN Ok(out)
            ELSE IF m.mo < 1 THEN Throw("Invalid month")
            ELSE IF m.mo > 12 THEN Throw("Invalid month")
            ELSE IF m.d < 1 THEN Throw("Invalid day")
            ELSE IF m.d > 31 THEN Throw("Invalid day")
            ELSE IsoOrSlashLoop(s, m.next, Append(out, [y |-> m.y, mo |-> m.mo, d |-> m.d]))
    IN  Body(ExecDateFrom(s, i))

_isoOrSlashDates(text) ==
    IF ~IsString(text) THEN Throw("must be a string")
    ELSE IsoOrSlashLoop(text.s, 1, <<>>)

\* `${mo}月`
MonthLabel(mo) == Append(NumberToString(mo), "yue4")

\* getDeathMonthBucket with the range rule comparing the months only
getDeathMonthBucket_MonthOnly(rawDeath) ==
    LET First(dates) ==
            IF ~dates.ok THEN dates
            ELSE IF Len(dates.val) >= 1 THEN Ok(MonthLabel(dates.val[1].mo))
            ELSE Ok(UNKNOWN_MONTH_BUCKET)
        Range(dates) ==
            IF ~dates.ok THEN dates
            ELSE IF Len(dates.val) >= 2 /\ dates.val[1].mo = dates.val[2].mo
                 THEN Ok(MonthLabel(dates.val[1].mo))
            ELSE Ok(UNKNOWN_MONTH_BUCKET)
        Rules(s) ==
            IF Len(s) = 0 THEN Ok(UNKNOWN_MONTH_BUCKET)
            ELSE IF Includes(s, NOT_LATER_THAN) THEN First(_isoOrSlashDates(Str(s)))
            ELSE IF Includes(s, RANGE_TO) THEN Range(_isoOrSlashDates(Str(s)))
            ELSE First(_isoOrSlashDates(Str(s)))
    IN  IF ~IsString(rawDeath) THEN Throw("must be a string")
        ELSE Rules(Trim(rawDeath.s))

getDeathMonthBucket(rawDeath) ==
    LET \* `${dates[0].mo}月` when a date was extracted
        First(dates) ==
            IF ~dates.ok THEN dates
            ELSE IF Len(dates.val) >= 1 THEN Ok(MonthLabel(dates.val[1].mo))
            ELSE Ok(UNKNOWN_MONTH_BUCKET)
        Range(dates) ==
            IF ~dates.ok THEN dates
            ELSE IF Len(dates.val) >= 2 THEN
                LET a == dates.val[1]
                    b == dates.val[2]
                IN  IF a.y = b.y /\ a.mo = b.mo THEN Ok(MonthLabel(a.mo))
                    ELSE Ok(UNKNOWN_MONTH_BUCKET)
            ELSE Ok(UNKNOWN_MONTH_BUCKET)
        Rules(s) ==
            IF Len(s) = 0 THEN Ok(UNKNOWN_MONTH_BUCKET)
            ELSE IF Includes(s, NOT_LATER_THAN) THEN First(_isoOrSlashDates(Str(s)))
            ELSE IF Includes(s, RANGE_TO) THEN Range(_isoOrSlashDates(Str(s)))
            ELSE First(_isoOrSlashDates(Str(s)))
    IN  IF ~IsString(rawDeath) THEN Throw("must be a string")
        ELSE Rules(Trim(rawDeath.s))

----------------------------------------------------------------------------
(* JavaScript Date                                                         *)
(* A Date is its calendar day, counted in days from 0000-01-01 (proleptic   *)
(* Gregorian).  getTime() is kept in hours, not milliseconds: every value   *)
(* the code computes from it is a multiple of one hour.                     *)

\* the Gregorian calendar the Date object follows
GregorianLeap(y) == (y % 4 = 0 /\ y % 100 # 0) \/ (y % 400 = 0)

DaysBeforeYear(y) == 365 * y + ((y + 3) \div 4) - ((y + 99) \div 100) + ((y + 399) \div 400)

MonthLengths(y) ==
    <<31, IF GregorianLeap(y) THEN 29 ELSE 28, 31, 30, 31, 30, 31, 31, 30, 31, 30, 31>>

RECURSIVE DaysBeforeMonth(_, _)
DaysBeforeMonth(y, mo) ==
    IF mo <= 1 THEN 0 ELSE DaysBeforeMonth(y, mo - 1) + MonthLengths(y)[mo - 1]

\* a year 0..99 of the Date constructor means 1900..1999
FullYear(y) == IF y >= 0 /\ y <= 99 THEN 1900 + y ELSE y

\* new Date(y, mo - 1, d) with mo in 1..12: a day past the end of the month
\* runs on into the next month (February 31 is March 3)
NewDate(y, mo, d) ==
    LET fy == FullYear(y)
    IN  [day |-> DaysBeforeYear(fy) + DaysBeforeMonth(fy, mo) + d - 1, year |-> fy]

\* The time zone of the browser.  "fixed": one UTC offset all year (Asia/Shanghai,
\* Asia/Tokyo).  "dst": the clock is one hour ahead from March 9 to November 2
\* (America/New_York in 2025), so local midnight comes one hour earlier.
TimeZones == {"fixed", "dst"}
InDst(date) ==
    /\ date.day >= DaysBeforeYear(date.year) + DaysBeforeMonth(date.year, 3) + 9 - 1
    /\ date.day < DaysBeforeYear(date.year) + DaysBeforeMonth(date.year, 11) + 2 - 1

HoursPerDay == 24
\* Date.prototype.getTime of local midnight, in hours
GetTime(date, zone) ==
    date.day * HoursPerDay - (IF zone = "dst" /\ InDst(date) THEN 1 ELSE 0)

\* Date.prototype.getDay: 0 = Sunday .. 6 = Saturday (1970-01-01 was a Thursday)
GetDay(date) == (date.day - DaysBeforeYear(1970) + 4) % 7

\* setDate(getDate() + n)
AddDays(date, n) == [date EXCEPT !.day = date.day + n]

----------------------------------------------------------------------------
(* viz.js: configuration and column resolution                             *)
(* Column names: 逝世 "shi4 shi4", 马名 "ma3 ming2", 享年 "xiang3 nian2",    *)
(* 主胜鞍 "zhu3 sheng4 an1", 死因（用于统计） "si3 yin1 ..."                   *)

COL_DEATH == <<"shi4", "shi4">>
COL_NAME == <<"ma3", "ming2">>
COL_AGE == <<"xiang3", "nian2">>
COL_MAIN_WINS == <<"zhu3", "sheng4", "an1">>
COL_GENDER == <<"xing4", "bie2">>
COL_COAT == <<"mao2", "se4">>
COL_BREED == <<"pin3", "zhong3">>
COL_CAUSE_STATS == <<"si3", "yin1", "(", "yong4", "yu2", "tong3", "ji4", ")">>

\* CONFIG.visualizations.columnsByYear["2025"] of config.js
ColumnMap2025 ==
    (COL_DEATH :> Str(COL_DEATH)) @@ (COL_AGE :> Str(COL_AGE))
      @@ (COL_MAIN_WINS :> Str(COL_MAIN_WINS))
      @@ (COL_CAUSE_STATS :> Str(COL_CAUSE_STATS)) @@ (COL_NAME :> Str(COL_NAME))

\* property access obj[key]: undefined when the object has no such property
Get(obj, key) == IF key \in DOMAIN obj THEN obj[key] ELSE Undefined

\* _getVizColumnMapForYearOrThrow and _resolveColumnOrThrow; byYear is
\* CONFIG.visualizations.columnsByYear
_resolveColumnOrThrow(byYear, year, canonicalCol) ==
    IF year \notin DOMAIN byYear THEN Throw("columnsByYear[year] must be an object")
    ELSE LET actual == Get(byYear[year], canonicalCol)
         IN  IF ~IsString(actual) THEN Throw("Missing column mapping")
             ELSE IF Len(Trim(actual.s)) = 0 THEN Throw("Empty column mapping")
             ELSE Ok(actual.s)

----------------------------------------------------------------------------
(* viz.js: computeTimeStats                                                *)

UNKNOWN_NAME == <<"wei4", "zhi1">>

_parseDeathDate(rawDeath) ==
    LET First(dates) ==
            IF ~dates.ok THEN dates
            ELSE IF Len(dates.val) = 0 THEN Ok(Null)
            ELSE Ok(NewDate(dates.val[1].y, dates.val[1].mo, dates.val[1].d))
        Text(s) == IF Len(s) = 0 THEN Ok(Null) ELSE First(_isoOrSlashDates(Str(s)))
    IN  IF ~IsString(rawDeath) THEN Throw("must be a string")
        ELSE Text(Trim(rawDeath.s))

\* the Monday by weekday - 1 alone: a Sunday opens the week that follows it
_getWeekRange_SundayOpensWeek(date) ==
    LET weekday == GetDay(date)
        monday == AddDays(date, 0 - (weekday - 1))
    IN  [monday |-> monday, sunday |-> AddDays(monday, 6)]

_getWeekRange(date) ==
    LET weekday == GetDay(date)
        monday == AddDays(date, 0 - (IF weekday = 0 THEN 6 ELSE weekday - 1))
    IN  [monday |-> monday, sunday |-> AddDays(monday, 6)]

\* String(row[colName] || '未知') for a string, undefined or null cell
HorseName(row, colName) ==
    LET v == Get(row, colName)
    IN  IF IsString(v) /\ v.s # <<>> THEN v.s ELSE UNKNOWN_NAME

\* an insertion-ordered Map as a sequence of [key, val] entries
MapHas(map, k) == \E i \in 1..Len(map) : map[i].key = k
MapIndex(map, k) == CHOOSE i \in 1..Len(map) : map[i].key = k
MapGet(map, k) == map[MapIndex(map, k)].val
MapSet(map, k, v) ==
    IF MapHas(map, k) THEN [map EXCEPT ![MapIndex(map, k)].val = v]
    ELSE Append(map, [key |-> k, val |-> v])

EmptyTimeAcc ==
    [ok |-> TRUE, deathsByDate |-> <<>>, deathsByWeek |-> <<>>,
     preciseDates |-> <<>>, allDatesForAvg |-> {}]

\* the test for "不晚于" alone
isImprecise_NotLaterOnly(s) == Includes(s, NOT_LATER_THAN)

\* s.includes('不晚于') || s.includes('至')
isImprecise(s) == Includes(s, NOT_LATER_THAN) \/ Includes(s, RANGE_TO)

\* "按天分组": deathsByDate after the has / set / get(...).push
GroupByDay(deathsByDate, timestamp, horseName) ==
    LET Push(map) == MapSet(map, timestamp, Append(MapGet(map, timestamp), horseName))
    IN  IF MapHas(deathsByDate, timestamp) THEN Push(deathsByDate)
        ELSE Push(MapSet(deathsByDate, timestamp, <<>>))

\* `${_formatDate(monday)}~${_formatDate(sunday)}` names the two days
WeekKey(range) == [monday |-> range.monday.day, sunday |-> range.sunday.day]

\* "按周分组": deathsByWeek after the has / set / includes / push
GroupByWeek(deathsByWeek, weekKey, horseName) ==
    LET Push(map) ==
            IF SeqContains(MapGet(map, weekKey), horseName) THEN map
            ELSE MapSet(map, weekKey, Append(MapGet(map, weekKey), horseName))
    IN  IF MapHas(deathsByWeek, weekKey) THEN Push(deathsByWeek)
        ELSE Push(MapSet(deathsByWeek, weekKey, <<>>))

\* the loop body from allDatesForAvg.add on, for a row whose date resolved
TimeStatsDate(acc, s, dateObj, timestamp, horseName) ==
    IF isImprecise(s)
    THEN [acc EXCEPT !.allDatesForAvg = @ \cup {timestamp}]
    ELSE [acc EXCEPT !.allDatesForAvg = @ \cup {timestamp},
                     !.deathsByDate = GroupByDay(@, timestamp, horseName),
                     !.preciseDates = IF MapHas(acc.deathsByDate, timestamp) THEN @
                                      ELSE Append(@, dateObj),
                     !.deathsByWeek = GroupByWeek(@, WeekKey(_getWeekRange(dateObj)),
                                                  horseName)]

\* the body of the for loop over the rows, for one row
TimeStatsRow(acc, row, colDeath, colName, zone) ==
    LET Parsed(s, parsed) ==
            IF Len(s) = 0 THEN acc
            ELSE IF ~parsed.ok THEN parsed
            ELSE IF parsed.val = Null THEN acc
            ELSE TimeStatsDate(acc, s, parsed.val, GetTime(parsed.val, zone),
                               HorseName(row, colName))
        Cell(rawDeath) ==
            IF ~IsString(rawDeath) THEN Throw("must be a string")
            ELSE Parsed(Trim(rawDeath.s), _parseDeathDate(rawDeath))
    IN  IF ~IsPlainObject(row) THEN Throw("TypeError")
        ELSE Cell(Get(row, colDeath))

RECURSIVE TimeStatsLoop(_, _, _, _, _, _)
TimeStatsLoop(acc, rows, i, colDeath, colName, zone) ==
    IF ~acc.ok \/ i > Len(rows) THEN acc
    ELSE TimeStatsLoop(TimeStatsRow(acc, rows[i], colDeath, colName, zone),
                       rows, i + 1, colDeath, colName, zone)

\* preciseDates.sort((a, b) => a.getTime() - b.getTime()): the dates are distinct
RECURSIVE SortDates(_, _)
SortDates(dates, zone) ==
    LET Take(least) ==
            <<dates[least]>> \o
            SortDates([k \in 1..(Len(dates) - 1) |->
                          IF k < least THEN dates[k] ELSE dates[k + 1]], zone)
    IN  IF dates = <<>> THEN <<>>
        ELSE Take(CHOOSE i \in 1..Len(dates) :
                     \A j \in 1..Len(dates) :
                        GetTime(dates[i], zone) <= GetTime(dates[j], zone))

\* the loops without their else-if branch: an entry that ties is not pushed
RECURSIVE MaxEntries_TiesDropped(_, _, _, _)
MaxEntries_TiesDropped(map, i, maxCount, maxList) ==
    IF i > Len(map) THEN [count |-> maxCount, list |-> maxList]
    ELSE IF Len(map[i].val) > maxCount
         THEN MaxEntries_TiesDropped(map, i + 1, Len(map[i].val), <<map[i]>>)
    ELSE MaxEntries_TiesDropped(map, i + 1, maxCount, maxList)

\* the loops "同一天最多" and "同一周最多": the entries with the longest list
RECURSIVE MaxEntries(_, _, _, _)
MaxEntries(map, i, maxCount, maxList) ==
    IF i > Len(map) THEN [count |-> maxCount, list |-> maxList]
    ELSE IF Len(map[i].val) > maxCount
         THEN MaxEntries(map, i + 1, Len(map[i].val), <<map[i]>>)
    ELSE IF Len(map[i].val) = maxCount
         THEN MaxEntries(map, i + 1, maxCount, Append(maxList, map[i]))
    ELSE MaxEntries(map, i + 1, maxCount, maxList)

\* Math.floor(gapMs / (1000 * 60 * 60 * 24)) - 1, the times being in hours
GapDays(current, next, zone) ==
    ((GetTime(next, zone) - GetTime(current, zone)) \div HoursPerDay) - 1

\* the loop "最长间隔" over the sorted precise dates
RECURSIVE LongestGapLoop(_, _, _, _, _)
LongestGapLoop(sorted, i, maxGapDays, maxGapRange, zone) ==
    LET Body(gapDays) ==
            IF gapDays > maxGapDays
            THEN LongestGapLoop(sorted, i + 1, gapDays,
                                [start |-> sorted[i], end |-> sorted[i + 1]], zone)
            ELSE LongestGapLoop(sorted, i + 1, maxGapDays, maxGapRange, zone)
    IN  IF i > Len(sorted) - 1 THEN [days |-> maxGapDays, range |-> maxGapRange]
        ELSE Body(GapDays(sorted[i], sorted[i + 1], zone))

\* the test "divisible by 4" alone
isLeapYear_DivisibleBy4(year) == year % 4 = 0

\* (year % 4 === 0 && year % 100 !== 0) || (year % 400 === 0)
isLeapYear(year) == (year % 4 = 0 /\ year % 100 # 0) \/ (year % 400 = 0)

\* computeTimeStats from "计算平均间隔" on: acc is what the loop over the rows left
TimeStatsResult(acc, year, zone) ==
    LET size == Cardinality(acc.allDatesForAvg)
        daysInYear == IF isLeapYear(year) THEN 366 ELSE 365
        avgInterval == IF size > 0 THEN [num |-> daysInYear, den |-> size] ELSE Null
        Result(day, week, gap) ==
            [maxDeathsInOneDay |->
                 IF day.count > 0 THEN [count |-> day.count, dates |-> day.list] ELSE Null,
             maxDeathsInOneWeek |->
                 IF week.count > 0 THEN [count |-> week.count, weeks |-> week.list] ELSE Null,
             longestGap |->
                 IF gap.days > 0 /\ gap.range # Null
                 THEN [days |-> gap.days, start |-> gap.range.start, end |-> gap.range.end]
                 ELSE Null,
             avgInterval |-> avgInterval]
    IN  IF Len(acc.preciseDates) = 0
        THEN Ok([maxDeathsInOneDay |-> Null, maxDeathsInOneWeek |-> Null,
                 longestGap |-> Null, avgInterval |-> avgInterval])
        ELSE Ok(Result(MaxEntries(acc.deathsByDate, 1, 0, <<>>),
                       MaxEntries(acc.deathsByWeek, 1, 0, <<>>),
                       LongestGapLoop(SortDates(acc.preciseDates, zone), 1, 0, Null, zone)))

\* byYear is CONFIG.visualizations.columnsByYear, zone the browser's time zone
computeTimeStats(rows, year, byYear, zone) ==
    LET Finish(acc) == IF ~acc.ok THEN acc ELSE TimeStatsResult(acc, year, zone)
        Rows(colDeath, colName) ==
            IF ~colDeath.ok THEN colDeath
            ELSE IF ~colName.ok THEN colName
            ELSE Finish(TimeStatsLoop(EmptyTimeAcc, rows, 1, colDeath.val, colName.val, zone))
    IN  Rows(_resolveColumnOrThrow(byYear, year, COL_DEATH),
             _resolveColumnOrThrow(byYear, year, COL_NAME))

----------------------------------------------------------------------------
(* viz.js: panels                                                          *)
(* A panel is named by its id: 月份分布 "month", 享年分布 "age", 主胜鞍分布     *)
(* "mainWins", 性别分布 "gender", 毛色分布 "coat", 品种分布 "breed", 死因分布   *)
(* "cause", 殒命赛场分布 "raceDeath", 时间统计 "timeStats".                    *)

PANEL_DEFS ==
    [month |-> [type |-> "chart", requires |-> <<COL_DEATH>>],
     age |-> [type |-> "chart", requires |-> <<COL_AGE>>],
     mainWins |-> [type |-> "chart", requires |-> <<COL_MAIN_WINS>>],
     gender |-> [type |-> "chart", requires |-> <<COL_GENDER>>],
     coat |-> [type |-> "chart", requires |-> <<COL_COAT>>],
     breed |-> [type |-> "chart", requires |-> <<COL_BREED>>],
     cause |-> [type |-> "chart", requires |-> <<COL_CAUSE_STATS>>],
     raceDeath |-> [type |-> "chart", requires |-> <<COL_CAUSE_STATS>>],
     timeStats |-> [type |-> "stats", requires |-> <<COL_DEATH, COL_NAME>>]]

\* a Set in insertion order: a sequence without repetitions
SetAdd(q, x) == IF SeqContains(q, x) THEN q ELSE Append(q, x)
RECURSIVE SetAddAll(_, _)
SetAddAll(q, xs) == IF xs = <<>> THEN q ELSE SetAddAll(SetAdd(q, Head(xs)), Tail(xs))

\* _getPanelsForYear; byYear is CONFIG.visualizations.byYear
_getPanelsForYear(byYear, year) ==
    IF year \notin DOMAIN byYear THEN Throw("byYear[year] must be an array")
    ELSE IF \E i \in 1..Len(byYear[year]) : byYear[year][i] \notin DOMAIN PANEL_DEFS
         THEN Throw("Unknown panel")
    ELSE Ok(byYear[year])

\* the first throw among the resolutions of the columns cols, in order
RECURSIVE ResolveAll(_, _, _, _)
ResolveAll(byYear, year, cols, out) ==
    IF cols = <<>> THEN Ok(out)
    ELSE LET r == _resolveColumnOrThrow(byYear, year, Head(cols))
         IN  IF ~r.ok THEN r
             ELSE ResolveAll(byYear, year, Tail(cols), out @@ (Head(cols) :> r.val))

RECURSIVE _assertPanelsColumnsSatisfied(_, _, _)
_assertPanelsColumnsSatisfied(byYear, year, panels) ==
    IF panels = <<>> THEN Ok(TRUE)
    ELSE IF Head(panels) \notin DOMAIN PANEL_DEFS THEN Throw("Unknown panel")
    ELSE LET r == ResolveAll(byYear, year, PANEL_DEFS[Head(panels)].requires, <<>>)
         IN  IF ~r.ok THEN r ELSE _assertPanelsColumnsSatisfied(byYear, year, Tail(panels))

\* the loop collecting the canonical columns of the chart panels
RECURSIVE NeedsOfPanels(_, _)
NeedsOfPanels(panels, needs) ==
    IF panels = <<>> THEN Ok(needs)
    ELSE IF Head(panels) \notin DOMAIN PANEL_DEFS THEN Throw("Unknown panel")
    ELSE IF PANEL_DEFS[Head(panels)].type # "chart" THEN NeedsOfPanels(Tail(panels), needs)
    ELSE NeedsOfPanels(Tail(panels), SetAddAll(needs, PANEL_DEFS[Head(panels)].requires))

\* the loop of _assertRowsHaveColumns over the rows, for one resolved column
RECURSIVE RowsHaveColumn(_, _, _)
RowsHaveColumn(rows, i, actual) ==
    IF i > Len(rows) THEN Ok(TRUE)
    ELSE IF ~IsPlainObject(rows[i]) THEN Throw("rows[i] must be an object")
    ELSE IF actual \notin DOMAIN rows[i] THEN Throw("Missing data column")
    ELSE RowsHaveColumn(rows, i + 1, actual)

RECURSIVE AssertNeedsLoop(_, _, _, _)
AssertNeedsLoop(byYear, year, rows, needs) ==
    IF needs = <<>> THEN Ok(TRUE)
    ELSE LET actual == _resolveColumnOrThrow(byYear, year, Head(needs))
             have == RowsHaveColumn(rows, 1, actual.val)
         IN  IF ~actual.ok THEN actual
             ELSE IF ~have.ok THEN have
             ELSE AssertNeedsLoop(byYear, year, rows, Tail(needs))

\* _assertRowsHaveColumns without the throw on an empty set of needs
_assertRowsHaveColumns_AllowEmpty(byYear, year, rows, panels) ==
    LET Needs(needs) ==
            IF ~needs.ok THEN needs
            ELSE AssertNeedsLoop(byYear, year, rows, needs.val)
    IN  Needs(NeedsOfPanels(panels, <<>>))

\* byYear is CONFIG.visualizations.columnsByYear
_assertRowsHaveColumns(byYear, year, rows, panels) ==
    LET needs == NeedsOfPanels(panels, <<>>)
    IN  IF ~needs.ok THEN needs
        ELSE IF Len(needs.val) = 0 THEN Throw("No required columns resolved")
        ELSE AssertNeedsLoop(byYear, year, rows, needs.val)

----------------------------------------------------------------------------
(* viz.js: the cell parsers of the aggregation                             *)
(* 岁 "sui4".  "(" and ")" stand for the full-width parentheses （ ）.       *)
(* 未知 "wei4 zhi1"; 原因 "yuan2 yin1"; 殒命赛场 "yun3 ming4 sai4 chang3";    *)
(* 平地 "ping2 di4"; 障碍 "zhang4 ai4"; 赛前 "sai4 qian2"; 地方 "di4 fang1";  *)
(* 无分级胜鞍 "wu2 fen1 ji2 sheng4 an1".                                      *)

UNKNOWN_AGE_BUCKET == <<"wei4", "zhi1">>
UNKNOWN_VALUE == <<"wei4", "zhi1">>
Num(n) == [t |-> "number", n |-> n]

\* one attempt of /(\d+)\s*岁/ at position i
RECURSIVE DigitRunEnd(_, _)
DigitRunEnd(s, i) == IF IsDigitAt(s, i + 1) THEN DigitRunEnd(s, i + 1) ELSE i
RECURSIVE SkipWhitespace(_, _)
SkipWhitespace(s, i) ==
    IF i <= Len(s) /\ s[i] \in Whitespace THEN SkipWhitespace(s, i + 1) ELSE i
MatchAgeAt(s, i) ==
    LET e == DigitRunEnd(s, i)
        k == SkipWhitespace(s, e + 1)
    IN  IF IsDigitAt(s, i) /\ k <= Len(s) /\ s[k] = "sui4"
        THEN [found |-> TRUE, n |-> DigitsToNumber(s, i, e)]
        ELSE [found |-> FALSE]
RECURSIVE MatchAgeFrom(_, _)
MatchAgeFrom(s, i) ==
    IF i > Len(s) THEN [found |-> FALSE]
    ELSE IF MatchAgeAt(s, i).found THEN MatchAgeAt(s, i) ELSE MatchAgeFrom(s, i + 1)

parseAge(rawAge) ==
    IF ~IsString(rawAge) THEN Throw("must be a string")
    ELSE LET s == Trim(rawAge.s)
             m == MatchAgeFrom(s, 1)
         IN  IF Len(s) = 0 THEN Ok(Null)
             ELSE IF ~m.found THEN Ok(Null)
             ELSE Ok(Num(m.n))

TIER_G1 == <<"G", "1">>
TIER_G2G3 == <<"G", "2", "/", "G", "3">>
TIER_UNGRADED == <<"wu2", "fen1", "ji2", "sheng4", "an1">>
Paren(mark) == <<"(">> \o mark \o <<")">>
G1Marks == {<<"G", "1">>, <<"J", "p", "n", "1">>, <<"J", "G", "1">>, <<"di4", "fang1", "G", "1">>}
G2G3Marks ==
    {<<"G", "2">>, <<"G", "3">>, <<"J", "p", "n", "2">>, <<"J", "p", "n", "3">>,
     <<"J", "G", "2">>, <<"J", "G", "3">>, <<"di4", "fang1", "G", "2">>,
     <<"di4", "fang1", "G", "3">>, <<"B", "G", "1">>, <<"B", "G", "2">>, <<"B", "G", "3">>}

\* the two tests in the other order: a G2/G3 marker hides a G1 marker
classifyMainWins_G2G3First(rawWins) ==
    IF ~IsString(rawWins) THEN Throw("must be a string")
    ELSE LET s == rawWins.s
             hasG1 == \E m \in G1Marks : Includes(s, Paren(m))
             hasG2G3 == \E m \in G2G3Marks : Includes(s, Paren(m))
         IN  IF hasG2G3 THEN Ok(TIER_G2G3)
             ELSE IF hasG1 THEN Ok(TIER_G1)
             ELSE Ok(TIER_UNGRADED)

classifyMainWins(rawWins) ==
    IF ~IsString(rawWins) THEN Throw("must be a string")
    ELSE LET s == rawWins.s
             hasG1 == \E m \in G1Marks : Includes(s, Paren(m))
             hasG2G3 == \E m \in G2G3Marks : Includes(s, Paren(m))
         IN  IF hasG1 THEN Ok(TIER_G1)
             ELSE IF hasG2G3 THEN Ok(TIER_G2G3)
             ELSE Ok(TIER_UNGRADED)

\* String.prototype.split('|')
RECURSIVE Split(_, _)
Split(s, cur) ==
    IF s = <<>> THEN <<cur>>
    ELSE IF Head(s) = "|" THEN <<cur>> \o Split(Tail(s), <<>>)
    ELSE Split(Tail(s), Append(cur, Head(s)))

RECURSIVE TrimAllNonEmpty(_)
TrimAllNonEmpty(parts) ==
    IF parts = <<>> THEN <<>>
    ELSE IF Trim(Head(parts)) = <<>> THEN TrimAllNonEmpty(Tail(parts))
    ELSE <<Trim(Head(parts))>> \o TrimAllNonEmpty(Tail(parts))

_splitStatsTags(raw) ==
    IF ~IsString(raw) THEN Throw("must be a string")
    ELSE IF Len(Trim(raw.s)) = 0 THEN Ok(<<>>)
    ELSE Ok(TrimAllNonEmpty(Split(Trim(raw.s), <<>>)))

\* Array.from(new Set(arr))
_unique(arr) == SetAddAll(<<>>, arr)

StartsWith(s, prefix) == Len(s) >= Len(prefix) /\ SubSeq(s, 1, Len(prefix)) = prefix

RECURSIVE PrefixedLoop(_, _)
PrefixedLoop(tags, prefix) ==
    IF tags = <<>> THEN <<>>
    ELSE IF ~StartsWith(Head(tags), prefix) THEN PrefixedLoop(Tail(tags), prefix)
    ELSE <<SubSeq(Head(tags), Len(prefix) + 1, Len(Head(tags)))>> \o PrefixedLoop(Tail(tags), prefix)

_extractPrefixed(tags, prefix) == _unique(PrefixedLoop(tags, prefix))

PREFIX_CAUSE == <<"yuan2", "yin1", "/">>
PREFIX_RACE_DEATH == <<"yun3", "ming4", "sai4", "chang3", "/">>
VENUE_FLAT == <<"ping2", "di4">>
VENUE_JUMP == <<"zhang4", "ai4">>
VENUE_PRE_RACE == <<"sai4", "qian2">>

\* the counting idiom: get, then set 1 or the count plus one
MapInc(map, k) == IF MapHas(map, k) THEN MapSet(map, k, MapGet(map, k) + 1) ELSE MapSet(map, k, 1)

\* _accCount counting under the raw key
_accCount_NoTrim(map, key) ==
    IF ~IsString(key) THEN Throw("must be a string")
    ELSE Ok(MapInc(map, IF Len(Trim(key.s)) = 0 THEN UNKNOWN_VALUE ELSE key.s))

\* _accCount: the map after the call, or the throw
_accCount(map, key) ==
    IF ~IsString(key) THEN Throw("must be a string")
    ELSE Ok(MapInc(map, IF Len(Trim(key.s)) = 0 THEN UNKNOWN_VALUE ELSE Trim(key.s)))

RECURSIVE AccCountAll(_, _)
AccCountAll(map, keys) ==
    IF keys = <<>> THEN map ELSE AccCountAll(MapInc(map, Head(keys)), Tail(keys))

----------------------------------------------------------------------------
(* viz.js: aggregateForYear                                                *)

EmptyAggAcc ==
    [ok |-> TRUE, monthCounts |-> <<>>, ageCounts |-> <<>>, mainWinCounts |-> <<>>,
     genderCounts |-> <<>>, coatCounts |-> <<>>, breedCounts |-> <<>>,
     causeCounts |-> <<>>, raceDeathCounts |-> <<>>,
     knownAgeMin |-> Null, knownAgeMax |-> Null]

Min(a, b) == IF a <= b THEN a ELSE b
Max(a, b) == IF a >= b THEN a ELSE b

\* the loop without its third test: 赛前 is not counted
RECURSIVE KnownVenues_NoPreRace(_)
KnownVenues_NoPreRace(race) ==
    IF race = <<>> THEN <<>>
    ELSE IF Head(race) \in {VENUE_FLAT, VENUE_JUMP}
         THEN <<Head(race)>> \o KnownVenues_NoPreRace(Tail(race))
    ELSE KnownVenues_NoPreRace(Tail(race))

\* the venues of one row that are counted, in the row's order
RECURSIVE KnownVenues(_)
KnownVenues(race) ==
    IF race = <<>> THEN <<>>
    ELSE IF Head(race) \in {VENUE_FLAT, VENUE_JUMP, VENUE_PRE_RACE}
         THEN <<Head(race)>> \o KnownVenues(Tail(race))
    ELSE KnownVenues(Tail(race))

\* the month step counting only the rows of a month
AggMonthStep_MonthsOnly(acc, r, need, cols) ==
    LET Count(month) ==
            IF ~month.ok THEN month
            ELSE IF month.val = UNKNOWN_MONTH_BUCKET THEN acc
            ELSE [acc EXCEPT !.monthCounts = MapInc(@, month.val)]
    IN  IF ~acc.ok \/ COL_DEATH \notin need THEN acc
        ELSE Count(getDeathMonthBucket(Get(r, cols[COL_DEATH])))

\* The steps of the loop body for one row r, one per "if (need...)": each takes
\* the accumulator so far and gives the next one; a throw passes through the
\* steps after it.  need is the set of canonical columns, cols their resolved
\* names.
AggMonthStep(acc, r, need, cols) ==
    LET Count(month) ==
            IF ~month.ok THEN month
            ELSE [acc EXCEPT !.monthCounts = MapInc(@, month.val)]
    IN  IF ~acc.ok \/ COL_DEATH \notin need THEN acc
        ELSE Count(getDeathMonthBucket(Get(r, cols[COL_DEATH])))

AggAgeStep_UnknownSkipped(acc, r, need, cols) ==
    LET Count(age) ==
            IF ~age.ok THEN age
            ELSE IF age.val # Null
            THEN [acc EXCEPT
                    !.ageCounts = MapInc(@, NumberToString(age.val.n)),
                    !.knownAgeMin = IF @ = Null THEN age.val ELSE Num(Min(@.n, age.val.n)),
                    !.knownAgeMax = IF @ = Null THEN age.val ELSE Num(Max(@.n, age.val.n))]
            ELSE acc
    IN  IF ~acc.ok \/ COL_AGE \notin need THEN acc
        ELSE Count(parseAge(Get(r, cols[COL_AGE])))

AggAgeStep(acc, r, need, cols) ==
    LET Count(age) ==
            IF ~age.ok THEN age
            ELSE IF age.val # Null
            THEN [acc EXCEPT
                    !.ageCounts = MapInc(@, NumberToString(age.val.n)),
                    !.knownAgeMin = IF @ = Null THEN age.val ELSE Num(Min(@.n, age.val.n)),
                    !.knownAgeMax = IF @ = Null THEN age.val ELSE Num(Max(@.n, age.val.n))]
            ELSE [acc EXCEPT !.ageCounts = MapInc(@, UNKNOWN_AGE_BUCKET)]
    IN  IF ~acc.ok \/ COL_AGE \notin need THEN acc
        ELSE Count(parseAge(Get(r, cols[COL_AGE])))

AggMainWinsStep(acc, r, need, cols) ==
    LET Count(cls) ==
            IF ~cls.ok THEN cls
            ELSE [acc EXCEPT !.mainWinCounts = MapInc(@, cls.val)]
    IN  IF ~acc.ok \/ COL_MAIN_WINS \notin need THEN acc
        ELSE Count(classifyMainWins(Get(r, cols[COL_MAIN_WINS])))

AggGenderStep(acc, r, need, cols) ==
    LET Count(m) == IF ~m.ok THEN m ELSE [acc EXCEPT !.genderCounts = m.val]
    IN  IF ~acc.ok \/ COL_GENDER \notin need THEN acc
        ELSE Count(_accCount(acc.genderCounts, Get(r, cols[COL_GENDER])))

AggCoatStep(acc, r, need, cols) ==
    LET Count(m) == IF ~m.ok THEN m ELSE [acc EXCEPT !.coatCounts = m.val]
    IN  IF ~acc.ok \/ COL_COAT \notin need THEN acc
        ELSE Count(_accCount(acc.coatCounts, Get(r, cols[COL_COAT])))

AggBreedStep(acc, r, need, cols) ==
    LET Count(m) == IF ~m.ok THEN m ELSE [acc EXCEPT !.breedCounts = m.val]
    IN  IF ~acc.ok \/ COL_BREED \notin need THEN acc
        ELSE Count(_accCount(acc.breedCounts, Get(r, cols[COL_BREED])))

\* the keys _accCount counts the causes under
RECURSIVE CauseKeys(_)
CauseKeys(causes) ==
    IF causes = <<>> THEN <<>>
    ELSE <<IF Len(Trim(Head(causes))) = 0 THEN UNKNOWN_VALUE ELSE Trim(Head(causes))>>
             \o CauseKeys(Tail(causes))

AggCauseStep(acc, r, need, cols) ==
    LET Count(tags) ==
            IF ~tags.ok THEN tags
            ELSE [acc EXCEPT
                    !.causeCounts =
                        AccCountAll(@, CauseKeys(_extractPrefixed(tags.val, PREFIX_CAUSE))),
                    !.raceDeathCounts =
                        AccCountAll(@, KnownVenues(_extractPrefixed(tags.val, PREFIX_RACE_DEATH)))]
    IN  IF ~acc.ok \/ COL_CAUSE_STATS \notin need THEN acc
        ELSE Count(_splitStatsTags(Get(r, cols[COL_CAUSE_STATS])))

AggRow(acc, r, need, cols) ==
    IF ~IsPlainObject(r) THEN Throw("rows[i] must be an object")
    ELSE AggCauseStep(
           AggBreedStep(
             AggCoatStep(
               AggGenderStep(
                 AggMainWinsStep(
                   AggAgeStep(
                     AggMonthStep(acc, r, need, cols),
                     r, need, cols),
                   r, need, cols),
                 r, need, cols),
               r, need, cols),
             r, need, cols),
           r, need, cols)

RECURSIVE AggLoop(_, _, _, _, _)
AggLoop(acc, rows, i, need, cols) ==
    IF ~acc.ok \/ i > Len(rows) THEN acc
    ELSE AggLoop(AggRow(acc, rows[i], need, cols), rows, i + 1, need, cols)

\* map.get(key), 0 when undefined
CountOr0(map, k) == IF MapHas(map, k) THEN MapGet(map, k) ELSE 0

\* arr.sort((a, b) => b.value - a.value): stable, largest value first
RECURSIVE SortByValueDesc(_)
SortByValueDesc(arr) ==
    IF arr = <<>> THEN <<>>
    ELSE LET first == CHOOSE i \in 1..Len(arr) :
                         /\ \A j \in 1..Len(arr) : arr[i].value >= arr[j].value
                         /\ \A j \in 1..(i - 1) : arr[j].value < arr[i].value
             rest == [k \in 1..(Len(arr) - 1) |-> IF k < first THEN arr[k] ELSE arr[k + 1]]
         IN  <<arr[first]>> \o SortByValueDesc(rest)

\* [...counts.entries()] as {name, value} objects
Entries(map) == [i \in 1..Len(map) |-> [name |-> map[i].key, value |-> map[i].val]]

FixedBuckets(map, names) ==
    [i \in 1..Len(names) |-> [name |-> names[i], value |-> CountOr0(map, names[i])]]

\* the ages of the rows only: no bucket for an age between them
AgeRange_EndsOnly(from, to) ==
    IF from = to THEN <<NumberToString(from)>>
    ELSE <<NumberToString(from), NumberToString(to)>>

RECURSIVE AgeRange(_, _)
AgeRange(from, to) ==
    IF from > to THEN <<>> ELSE <<NumberToString(from)>> \o AgeRange(from + 1, to)

\* aggregateForYear from "months: 1..12 + 不确定" on: acc is what the loop over
\* the rows left
AggResult(acc, need) ==
    LET monthKeys == [m \in 1..12 |-> MonthLabel(m)]
        unknownMonthCount == CountOr0(acc.monthCounts, UNKNOWN_MONTH_BUCKET)
        withUnknown == unknownMonthCount > 0
        ageKeys == IF acc.knownAgeMin # Null /\ acc.knownAgeMax # Null
                   THEN AgeRange(acc.knownAgeMin.n, acc.knownAgeMax.n) ELSE <<>>
    IN  [monthCats |-> IF COL_DEATH \notin need THEN <<>>
                       ELSE monthKeys \o (IF withUnknown THEN <<UNKNOWN_MONTH_BUCKET>> ELSE <<>>),
         monthVals |-> IF COL_DEATH \notin need THEN <<>>
                       ELSE [m \in 1..12 |-> CountOr0(acc.monthCounts, monthKeys[m])]
                              \o (IF withUnknown THEN <<unknownMonthCount>> ELSE <<>>),
         ageCats |-> IF COL_AGE \notin need THEN <<>>
                     ELSE Append(ageKeys, UNKNOWN_AGE_BUCKET),
         ageVals |-> IF COL_AGE \notin need THEN <<>>
                     ELSE Append([i \in 1..Len(ageKeys) |-> CountOr0(acc.ageCounts, ageKeys[i])],
                                 CountOr0(acc.ageCounts, UNKNOWN_AGE_BUCKET)),
         mainData |-> IF COL_MAIN_WINS \notin need THEN <<>>
                      ELSE FixedBuckets(acc.mainWinCounts, <<TIER_G1, TIER_G2G3, TIER_UNGRADED>>),
         genderData |-> IF COL_GENDER \notin need THEN <<>>
                        ELSE SortByValueDesc(Entries(acc.genderCounts)),
         coatData |-> IF COL_COAT \notin need THEN <<>>
                      ELSE SortByValueDesc(Entries(acc.coatCounts)),
         breedData |-> IF COL_BREED \notin need THEN <<>>
                       ELSE SortByValueDesc(Entries(acc.breedCounts)),
         causeData |-> IF COL_CAUSE_STATS \notin need THEN <<>>
                       ELSE SortByValueDesc(Entries(acc.causeCounts)),
         raceDeathData |-> IF COL_CAUSE_STATS \notin need THEN <<>>
                           ELSE FixedBuckets(acc.raceDeathCounts,
                                             <<VENUE_FLAT, VENUE_JUMP, VENUE_PRE_RACE>>)]

\* byYear is CONFIG.visualizations.columnsByYear
aggregateForYear(rows, year, panels, byYear) ==
    LET Finish(acc, need) == IF ~acc.ok THEN acc ELSE Ok(AggResult(acc, need))
        Rows(needs, cols) ==
            IF ~cols.ok THEN cols
            ELSE Finish(AggLoop(EmptyAggAcc, rows, 1,
                                {needs[i] : i \in 1..Len(needs)}, cols.val),
                        {needs[i] : i \in 1..Len(needs)})
        Columns(needs) ==
            IF ~needs.ok THEN needs
            ELSE Rows(needs.val, ResolveAll(byYear, year, needs.val, <<>>))
    IN  Columns(NeedsOfPanels(panels, <<>>))

----------------------------------------------------------------------------
(* JavaScript numbers of the sort engine                                   *)
(* A number the sort compares is kept exact, as sign, numerator and        *)
(* denominator.  A natural number is its decimal digits, least significant *)
(* first (<<>> is 0), so that 6000万 x 155.8 needs no machine word.  The     *)
(* rounding of IEEE doubles is left out, and no digit run of the model is  *)
(* long enough (309 digits) to give Infinity: the numbers that are not     *)
(* finite come from a rate that is not.                                    *)

RECURSIVE BigNorm(_)
BigNorm(a) ==
    IF a # <<>> /\ a[Len(a)] = 0 THEN BigNorm(SubSeq(a, 1, Len(a) - 1)) ELSE a

RECURSIVE BigFromInt(_)
BigFromInt(n) == IF n = 0 THEN <<>> ELSE <<n % 10>> \o BigFromInt(n \div 10)

\* the digit characters s[from..to], most significant first
RECURSIVE BigFromDigitRun(_, _, _)
BigFromDigitRun(s, from, to) ==
    IF to < from THEN <<>>
    ELSE <<DigitValue[s[to]]>> \o BigFromDigitRun(s, from, to - 1)

BigDigit(a, i) == IF i <= Len(a) THEN a[i] ELSE 0

RECURSIVE BigAddFrom(_, _, _, _)
BigAddFrom(a, b, i, carry) ==
    LET Put(sum) == <<sum % 10>> \o BigAddFrom(a, b, i + 1, sum \div 10)
    IN  IF i > Len(a) /\ i > Len(b) THEN (IF carry = 0 THEN <<>> ELSE <<carry>>)
        ELSE Put(BigDigit(a, i) + BigDigit(b, i) + carry)
BigAdd(a, b) == BigAddFrom(a, b, 1, 0)

\* a - b for a >= b
RECURSIVE BigSubFrom(_, _, _, _)
BigSubFrom(a, b, i, borrow) ==
    LET Put(diff) ==
            IF diff < 0 THEN <<diff + 10>> \o BigSubFrom(a, b, i + 1, 1)
            ELSE <<diff>> \o BigSubFrom(a, b, i + 1, 0)
    IN  IF i > Len(a) THEN <<>> ELSE Put(a[i] - BigDigit(b, i) - borrow)
BigSub(a, b) == BigNorm(BigSubFrom(a, b, 1, 0))

RECURSIVE BigCmpFrom(_, _, _)
BigCmpFrom(a, b, i) ==
    IF i = 0 THEN 0
    ELSE IF a[i] < b[i] THEN -1
    ELSE IF a[i] > b[i] THEN 1
    ELSE BigCmpFrom(a, b, i - 1)
\* -1, 0, 1 as a < b, a = b, a > b (both without leading zeros)
BigCmp(a, b) ==
    IF Len(a) < Len(b) THEN -1
    ELSE IF Len(a) > Len(b) THEN 1
    ELSE BigCmpFrom(a, b, Len(a))

RECURSIVE BigMulDigit(_, _, _, _)
BigMulDigit(a, d, i, carry) ==
    LET Put(prod) == <<prod % 10>> \o BigMulDigit(a, d, i + 1, prod \div 10)
    IN  IF i > Len(a) THEN (IF carry = 0 THEN <<>> ELSE <<carry>>)
        ELSE Put(a[i] * d + carry)
RECURSIVE BigMulFrom(_, _, _)
BigMulFrom(a, b, i) ==
    IF i > Len(b) THEN <<>>
    ELSE BigAdd(BigMulDigit(a, b[i], 1, 0), <<0>> \o BigMulFrom(a, b, i + 1))
BigMul(a, b) == BigNorm(BigMulFrom(a, b, 1))

RECURSIVE BigPow10(_)
BigPow10(k) == IF k = 0 THEN <<1>> ELSE <<0>> \o BigPow10(k - 1)

\* the number (-1)^neg * num / den; -0 and 0 are one number here, as they are
\* for every comparison the code makes
Number(neg, num, den) ==
    [t |-> "number", neg |-> neg /\ BigNorm(num) # <<>>,
     num |-> BigNorm(num), den |-> BigNorm(den)]

\* the numbers that are not finite
PositiveInfinity == [t |-> "number", special |-> "Infinity"]
NegativeInfinity == [t |-> "number", special |-> "-Infinity"]
NaN == [t |-> "number", special |-> "NaN"]

\* Number.isFinite(v): false for null as well
IsFinite(v) == v.t = "number" /\ "special" \notin DOMAIN v
NumberFromInt(n) ==
    IF n < 0 THEN Number(TRUE, BigFromInt(0 - n), <<1>>)
    ELSE Number(FALSE, BigFromInt(n), <<1>>)

\* -1, 0, 1 as a < b, a = b, a > b
NumberCmp(a, b) ==
    LET Magnitudes(c) == IF a.neg THEN 0 - c ELSE c
    IN  IF a.neg /\ ~b.neg THEN -1
        ELSE IF ~a.neg /\ b.neg THEN 1
        ELSE Magnitudes(BigCmp(BigMul(a.num, b.den), BigMul(b.num, a.den)))

NumberMul(a, b) ==
    Number(a.neg # b.neg, BigMul(a.num, b.num), BigMul(a.den, b.den))

NumberAdd(a, b) ==
    LET Signed(x, y, den) ==
            IF a.neg = b.neg THEN Number(a.neg, BigAdd(x, y), den)
            ELSE IF BigCmp(x, y) >= 0 THEN Number(a.neg, BigSub(x, y), den)
            ELSE Number(b.neg, BigSub(y, x), den)
    IN  Signed(BigMul(a.num, b.den), BigMul(b.num, a.den), BigMul(a.den, b.den))

\* a * b of JavaScript for a finite a
Times(a, b) ==
    IF IsFinite(b) THEN NumberMul(a, b)
    ELSE IF b = NaN \/ a.num = <<>> THEN NaN
    ELSE IF a.neg = (b = NegativeInfinity) THEN PositiveInfinity
    ELSE NegativeInfinity

\* a / b for b # 0
NumberDiv(a, b) ==
    Number(a.neg # b.neg, BigMul(a.num, b.den), BigMul(a.den, b.num))

----------------------------------------------------------------------------
(* sort.js: the comparable value of a cell                                 *)
(* Column names: 出生 "chu1 sheng1", 奖金 "jiang3 jin1", 战绩 "zhan4 ji4".    *)
(* A time is kept in days, not milliseconds: Date.UTC of a calendar day is *)
(* a whole number of days, and the code only compares the values.          *)

COL_BIRTH == <<"chu1", "sheng1">>
COL_PRIZE == <<"jiang3", "jin1">>
COL_RECORD == <<"zhan4", "ji4">>

TYPE_DATE == <<"d", "a", "t", "e">>
TYPE_FLEX_DATE == <<"f", "l", "e", "x", "D", "a", "t", "e">>
TYPE_AGE == <<"a", "g", "e">>
TYPE_NUMBER == <<"n", "u", "m", "b", "e", "r">>
TYPE_MONEY == <<"m", "o", "n", "e", "y">>
TYPE_RECORD == <<"r", "e", "c", "o", "r", "d">>

\* CONFIG.sortableColumns of config.js
SortableColumns ==
    (2025 :> ((COL_BIRTH :> [type |-> Str(TYPE_DATE)])
                @@ (COL_DEATH :> [type |-> Str(TYPE_FLEX_DATE)])
                @@ (COL_AGE :> [type |-> Str(TYPE_AGE)])
                @@ (COL_PRIZE :> [type |-> Str(TYPE_MONEY)])
                @@ (COL_RECORD :> [type |-> Str(TYPE_RECORD)])))

\* the empty object when the year has no entry
_getSortableConfigForYear(year) ==
    IF year \in DOMAIN SortableColumns THEN SortableColumns[year] ELSE <<>>

\* a column without a sort type reads as a date column
getColumnSortType_DefaultDate(year, colKey) ==
    IF colKey \in DOMAIN _getSortableConfigForYear(year)
    THEN _getSortableConfigForYear(year)[colKey].type
    ELSE Str(TYPE_DATE)

getColumnSortType(year, colKey) ==
    IF colKey \in DOMAIN _getSortableConfigForYear(year)
    THEN _getSortableConfigForYear(year)[colKey].type
    ELSE Null

\* value == null
IsNullish(v) == v.t \in {"null", "undefined"}

\* String(value) of a string or a non-negative integer
StringOf(v) ==
    IF v.t = "string" THEN v.s
    ELSE IF v.t = "number" THEN NumberToString(v.n)
    ELSE IF v.t = "null" THEN <<"n", "u", "l", "l">>
    ELSE <<"u", "n", "d", "e", "f", "i", "n", "e", "d">>

\* String(raw ?? '')
StringOrEmpty(raw) == IF IsNullish(raw) THEN <<>> ELSE StringOf(raw)

\* one attempt of /(\d{4})-(\d{1,2})-(\d{1,2})/ (sep "-") or of
\* /(\d{4})\/(\d{1,2})\/(\d{1,2})/ (sep "/") at position i
MatchDateSepAt(s, i, sep) ==
    LET Groups(mEnd, dEnd) ==
            [found |-> TRUE,
             y |-> DigitsToNumber(s, i, i + 3),
             mo |-> DigitsToNumber(s, i + 5, mEnd),
             d |-> DigitsToNumber(s, mEnd + 2, dEnd)]
        Day(mEnd) ==
            Groups(mEnd, IF IsDigitAt(s, mEnd + 3) THEN mEnd + 3 ELSE mEnd + 2)
        SepAt(k) == k <= Len(s) /\ s[k] = sep
    IN  IF ~((\A k \in i..(i + 3) : IsDigitAt(s, k)) /\ SepAt(i + 4))
        THEN [found |-> FALSE]
        ELSE IF IsDigitAt(s, i + 5) /\ IsDigitAt(s, i + 6) /\ SepAt(i + 7)
                  /\ IsDigitAt(s, i + 8)
             THEN Day(i + 6)
        ELSE IF IsDigitAt(s, i + 5) /\ SepAt(i + 6) /\ IsDigitAt(s, i + 7)
             THEN Day(i + 5)
        ELSE [found |-> FALSE]

\* s.match(re): the leftmost match
RECURSIVE MatchDateSepFrom(_, _, _)
MatchDateSepFrom(s, i, sep) ==
    LET Here(m) == IF m.found THEN m ELSE MatchDateSepFrom(s, i + 1, sep)
    IN  IF i > Len(s) THEN [found |-> FALSE] ELSE Here(MatchDateSepAt(s, i, sep))

\* Date.UTC(y, mo - 1, d) in days from 0000-01-01: a year 0..99 means
\* 1900..1999, a month outside 0..11 carries into the year, a day outside
\* the month runs into the months around it
DateUTC(y, mo, d) ==
    LET Start(ym, mn) == DaysBeforeYear(ym) + DaysBeforeMonth(ym, mn + 1) + d - 1
    IN  Start(FullYear(y) + ((mo - 1) \div 12), (mo - 1) % 12)

_toTimeOrNull(value, allowFlex) ==
    LET Time(m) == NumberFromInt(DateUTC(m.y, m.mo, m.d))
        Slash(m) == IF m.found THEN Time(m) ELSE Null
        Iso(s, m) ==
            IF m.found THEN Time(m)
            ELSE IF ~allowFlex THEN Null
            ELSE Slash(MatchDateSepFrom(s, 1, "/"))
        Text(s) == IF s = <<>> THEN Null ELSE Iso(s, MatchDateSepFrom(s, 1, "-"))
    IN  IF IsNullish(value) THEN Null ELSE Text(Trim(StringOf(value)))

\* /(\d+)\s*岁/ is the expression of parseAge
_toAgeOrNull(value) ==
    LET Age(m) == IF m.found THEN NumberFromInt(m.n) ELSE Null
    IN  IF IsNullish(value) THEN Null
        ELSE Age(MatchAgeFrom(Trim(StringOf(value)), 1))

\* s.replace(/,/g, '')
RECURSIVE RemoveCommas(_)
RemoveCommas(s) ==
    IF s = <<>> THEN <<>>
    ELSE IF Head(s) = "," THEN RemoveCommas(Tail(s))
    ELSE <<Head(s)>> \o RemoveCommas(Tail(s))

\* Number("12.50") for the digit runs s[from..to] and s[fracFrom..fracTo]
\* (the second one empty when there is no fraction)
DecimalToNumber(s, neg, from, to, fracFrom, fracTo) ==
    Number(neg,
           BigFromDigitRun(s, fracFrom, fracTo) \o BigFromDigitRun(s, from, to),
           BigPow10(IF fracTo < fracFrom THEN 0 ELSE fracTo - fracFrom + 1))

\* one attempt of /\d+(?:\.\d+)?/ at position i: where the match ends and the
\* number it reads as
MatchDecimalAt(s, i, neg) ==
    LET Whole(e) ==
            IF e + 1 <= Len(s) /\ s[e + 1] = "." /\ IsDigitAt(s, e + 2)
            THEN [found |-> TRUE, from |-> i, to |-> DigitRunEnd(s, e + 2),
                  n |-> DecimalToNumber(s, neg, i, e, e + 2, DigitRunEnd(s, e + 2))]
            ELSE [found |-> TRUE, from |-> i, to |-> e,
                  n |-> DecimalToNumber(s, neg, i, e, 1, 0)]
    IN  IF ~IsDigitAt(s, i) THEN [found |-> FALSE] ELSE Whole(DigitRunEnd(s, i))

\* the leftmost match of /-?\d+(?:\.\d+)?/ at or after position i
RECURSIVE MatchSignedDecimalFrom(_, _)
MatchSignedDecimalFrom(s, i) ==
    IF i > Len(s) THEN [found |-> FALSE]
    ELSE IF s[i] = "-" /\ IsDigitAt(s, i + 1)
         THEN [MatchDecimalAt(s, i + 1, TRUE) EXCEPT !.from = i]
    ELSE IF IsDigitAt(s, i) THEN MatchDecimalAt(s, i, FALSE)
    ELSE MatchSignedDecimalFrom(s, i + 1)

_toNumberOrNull(value) ==
    LET First(m) == IF m.found THEN m.n ELSE Null
        Text(s) ==
            IF s = <<>> THEN Null
            ELSE First(MatchSignedDecimalFrom(RemoveCommas(s), 1))
    IN  IF IsNullish(value) THEN Null ELSE Text(Trim(StringOf(value)))

_extractComparableValue(type, raw) ==
    IF type = Str(TYPE_DATE) THEN _toTimeOrNull(raw, FALSE)
    ELSE IF type = Str(TYPE_FLEX_DATE) THEN _toTimeOrNull(raw, TRUE)
    ELSE IF type = Str(TYPE_AGE) THEN _toAgeOrNull(raw)
    ELSE IF type = Str(TYPE_NUMBER) THEN _toNumberOrNull(raw)
    ELSE Null

----------------------------------------------------------------------------
(* sort.js: money                                                          *)
(* 瑞典克朗 "rui4 dian3 ke4 lang3", 挪威克朗 "nuo2 wei1 ke4 lang3",          *)
(* 英镑 "ying1 bang4", 欧 "ou1", 澳大利亚 "ao4 da4 li4 ya4", 港币 "gang3 bi4", *)
(* 美金 "mei3 jin1", 日 "ri4", 人民币 "ren2 min2 bi4", 亿 "yi4", 万 "wan4";   *)
(* 元, 圆 and 円 are three characters: "yuan2", "yuan2_round", "yen".        *)

LowerCase == <<"a", "b", "c", "d", "e", "f", "g", "h", "i", "j", "k", "l", "m",
               "n", "o", "p", "q", "r", "s", "t", "u", "v", "w", "x", "y", "z">>
UpperCase == <<"A", "B", "C", "D", "E", "F", "G", "H", "I", "J", "K", "L", "M",
               "N", "O", "P", "Q", "R", "S", "T", "U", "V", "W", "X", "Y", "Z">>

\* the character an /i expression compares by
UpperOf ==
    [c \in {LowerCase[k] : k \in 1..26} |->
        UpperCase[CHOOSE k \in 1..26 : LowerCase[k] = c]]
ToUpperChar(c) == IF c \in DOMAIN UpperOf THEN UpperOf[c] ELSE c

YUAN == "yuan2"
SEK == <<"S", "E", "K">>
NOK == <<"N", "O", "K">>
GBP == <<"G", "B", "P">>
EUR == <<"E", "U", "R">>
AUD == <<"A", "U", "D">>
HKD == <<"H", "K", "D">>
USD == <<"U", "S", "D">>
JPY == <<"J", "P", "Y">>
CNY == <<"C", "N", "Y">>
RMB == <<"R", "M", "B">>

\* the list with its last entry, the one of the bare 元, moved to the front
CurrencyMap_YuanFirst ==
    << [words |-> << <<"ren2", "min2", "bi4">>, CNY, RMB, <<YUAN>> >>, code |-> CNY],
       [words |-> << <<"rui4", "dian3", "ke4", "lang3">>, SEK >>, code |-> SEK],
       [words |-> << <<"nuo2", "wei1", "ke4", "lang3">>, NOK >>, code |-> NOK],
       [words |-> << <<"ying1", "bang4">>, GBP >>, code |-> GBP],
       [words |-> << <<"ou1", YUAN>>, EUR >>, code |-> EUR],
       [words |-> << <<"ao4", "da4", "li4", "ya4", YUAN>>, <<"ao4", YUAN>>,
                     <<"A", "$">>, AUD >>, code |-> AUD],
       [words |-> << <<"gang3", "bi4">>, <<"gang3", YUAN>>, HKD >>, code |-> HKD],
       [words |-> << <<"mei3", YUAN>>, <<"mei3", "jin1">>, USD >>, code |-> USD],
       [words |-> << <<"ri4", "yuan2_round">>, <<"ri4", YUAN>>, <<"yen">>, JPY >>,
        code |-> JPY] >>

\* the list `map` of _detectCurrencyCode, in its order
CurrencyMap ==
    << [words |-> << <<"rui4", "dian3", "ke4", "lang3">>, SEK >>, code |-> SEK],
       [words |-> << <<"nuo2", "wei1", "ke4", "lang3">>, NOK >>, code |-> NOK],
       [words |-> << <<"ying1", "bang4">>, GBP >>, code |-> GBP],
       [words |-> << <<"ou1", YUAN>>, EUR >>, code |-> EUR],
       [words |-> << <<"ao4", "da4", "li4", "ya4", YUAN>>, <<"ao4", YUAN>>,
                     <<"A", "$">>, AUD >>, code |-> AUD],
       [words |-> << <<"gang3", "bi4">>, <<"gang3", YUAN>>, HKD >>, code |-> HKD],
       [words |-> << <<"mei3", YUAN>>, <<"mei3", "jin1">>, USD >>, code |-> USD],
       [words |-> << <<"ri4", "yuan2_round">>, <<"ri4", YUAN>>, <<"yen">>, JPY >>,
        code |-> JPY],
       [words |-> << <<"ren2", "min2", "bi4">>, CNY, RMB, <<YUAN>> >>, code |-> CNY] >>

\* /(word)\s*$/i at position i: the word, then white space up to the end
WordThenEndAt(s, i, word) ==
    /\ i + Len(word) - 1 <= Len(s)
    /\ \A k \in (i + Len(word))..Len(s) : s[k] \in Whitespace
    /\ \A k \in 1..Len(word) : ToUpperChar(s[i + k - 1]) = ToUpperChar(word[k])

\* re.test(s) for /(w1|w2|..)\s*$/i
TestWords(s, words) ==
    \E i \in 1..Len(s) : \E w \in 1..Len(words) : WordThenEndAt(s, i, words[w])

RECURSIVE DetectLoop(_, _)
DetectLoop(s, k) ==
    IF k > Len(CurrencyMap) THEN Null
    ELSE IF TestWords(s, CurrencyMap[k].words) THEN Str(CurrencyMap[k].code)
    ELSE DetectLoop(s, k + 1)

_detectCurrencyCode(raw) ==
    IF Trim(StringOrEmpty(raw)) = <<>> THEN Null
    ELSE DetectLoop(Trim(StringOrEmpty(raw)), 1)

\* the words of the one expression of _stripCurrency
StripWords ==
    UNION {{CurrencyMap[k].words[w] : w \in 1..Len(CurrencyMap[k].words)} :
           k \in 1..Len(CurrencyMap)}

\* replace(/(..)\s*$/i, ''): the leftmost position a word matches at is cut off
RECURSIVE StripFrom(_, _)
StripFrom(s, i) ==
    IF i > Len(s) THEN s
    ELSE IF \E word \in StripWords : WordThenEndAt(s, i, word) THEN SubSeq(s, 1, i - 1)
    ELSE StripFrom(s, i + 1)

_stripCurrency(raw) == Trim(StripFrom(StringOrEmpty(raw), 1))

YI == "yi4"
WAN == "wan4"

\* one attempt of /(\d+(?:\.\d+)?)\s*亿/ (or 万) at position i: \d+ takes the
\* whole digit run, the fraction is taken when a unit follows it and given
\* back when a unit follows the digit run itself
MatchUnitAt(s, i, unit) ==
    LET UnitAt(k) == k <= Len(s) /\ s[k] = unit
        Found(m, k) == [found |-> TRUE, from |-> i, to |-> k, n |-> m.n]
        Fraction(m) ==
            IF UnitAt(SkipWhitespace(s, m.to + 1))
            THEN Found(m, SkipWhitespace(s, m.to + 1))
            ELSE IF UnitAt(SkipWhitespace(s, DigitRunEnd(s, i) + 1))
            THEN Found([n |-> DecimalToNumber(s, FALSE, i, DigitRunEnd(s, i), 1, 0)],
                       SkipWhitespace(s, DigitRunEnd(s, i) + 1))
            ELSE [found |-> FALSE]
    IN  IF ~IsDigitAt(s, i) THEN [found |-> FALSE]
        ELSE Fraction(MatchDecimalAt(s, i, FALSE))

RECURSIVE MatchUnitFrom(_, _, _)
MatchUnitFrom(s, i, unit) ==
    LET Here(m) == IF m.found THEN m ELSE MatchUnitFrom(s, i + 1, unit)
    IN  IF i > Len(s) THEN [found |-> FALSE] ELSE Here(MatchUnitAt(s, i, unit))

\* String.prototype.indexOf, 1-based; 0 when sub does not occur
RECURSIVE IndexOf(_, _, _)
IndexOf(s, sub, i) ==
    IF i + Len(sub) - 1 > Len(s) THEN 0
    ELSE IF SubSeq(s, i, i + Len(sub) - 1) = sub THEN i
    ELSE IndexOf(s, sub, i + 1)

\* rest.replace(sub, ''): the first occurrence of sub is taken out
ReplaceFirst(s, sub) ==
    LET Cut(at) ==
            IF at = 0 THEN s
            ELSE SubSeq(s, 1, at - 1) \o SubSeq(s, at + Len(sub), Len(s))
    IN  Cut(IndexOf(s, sub, 1))

Zero == NumberFromInt(0)
HUNDRED_MILLION == Number(FALSE, BigPow10(8), <<1>>)
TEN_THOUSAND == Number(FALSE, BigPow10(4), <<1>>)

_parseChineseNumberWithUnits(str) ==
    LET Tail3(total, m) == IF m.found THEN NumberAdd(total, m.n) ELSE total
        Tail2(total, rest) == Tail3(total, MatchSignedDecimalFrom(rest, 1))
        Wan2(total, rest, m) ==
            IF m.found
            THEN Tail2(NumberAdd(total, NumberMul(m.n, TEN_THOUSAND)),
                       ReplaceFirst(rest, SubSeq(rest, m.from, m.to)))
            ELSE Tail2(total, rest)
        Wan1(total, rest) == Wan2(total, rest, MatchUnitFrom(rest, 1, WAN))
        Yi(s, m) ==
            IF m.found
            THEN Wan1(NumberMul(m.n, HUNDRED_MILLION),
                      ReplaceFirst(s, SubSeq(s, m.from, m.to)))
            ELSE Wan1(Zero, s)
        Text(s) == IF s = <<>> THEN Null ELSE Yi(s, MatchUnitFrom(s, 1, YI))
    IN  Text(Trim(RemoveCommas(StringOrEmpty(str))))

\* rates is CONFIG.exchangeRates.rates: currency code to number
_moneyToBaseOrNull(raw, rates) ==
    LET Amount(n, rate) == IF n = Null THEN Null ELSE Times(n, rate)
        Rate(currency) ==
            IF currency = Null THEN Null
            ELSE IF currency.s \notin DOMAIN rates THEN Null
            ELSE Amount(_parseChineseNumberWithUnits(Str(_stripCurrency(raw))),
                        rates[currency.s])
    IN  Rate(_detectCurrencyCode(raw))

----------------------------------------------------------------------------
(* sort.js: record                                                         *)

\* one attempt of /(\d+)\s*-\s*(\d+)\s*-\s*(\d+)\s*-\s*(\d+)/ at position i, a
\* group at a time: the numbers so far, the next group starting at position j
RECURSIVE MatchRecordGroups(_, _, _)
MatchRecordGroups(s, j, groups) ==
    LET Dash(k, n) ==
            IF k <= Len(s) /\ s[k] = "-"
            THEN MatchRecordGroups(s, SkipWhitespace(s, k + 1), Append(groups, n))
            ELSE [found |-> FALSE]
        Group(e) ==
            IF Len(groups) = 3
            THEN [found |-> TRUE, groups |-> Append(groups, DigitsToNumber(s, j, e))]
            ELSE Dash(SkipWhitespace(s, e + 1), DigitsToNumber(s, j, e))
    IN  IF ~IsDigitAt(s, j) THEN [found |-> FALSE] ELSE Group(DigitRunEnd(s, j))

RECURSIVE MatchRecordFrom(_, _)
MatchRecordFrom(s, i) ==
    LET Here(m) == IF m.found THEN m ELSE MatchRecordFrom(s, i + 1)
    IN  IF i > Len(s) THEN [found |-> FALSE] ELSE Here(MatchRecordGroups(s, i, <<>>))

_parseRecordOrNull(raw) ==
    LET Rec(m) ==
            IF ~m.found THEN Null
            ELSE [t |-> "record", starts |-> m.groups[1], win |-> m.groups[2],
                  second |-> m.groups[3], third |-> m.groups[4]]
    IN  Rec(MatchRecordFrom(Trim(StringOrEmpty(raw)), 1))

METRIC_WIN_RATE == <<"w", "i", "n", "R", "a", "t", "e">>
METRIC_STARTS == <<"s", "t", "a", "r", "t", "s">>
METRIC_WIN == <<"w", "i", "n">>
METRIC_SECOND == <<"s", "e", "c", "o", "n", "d">>
METRIC_THIRD == <<"t", "h", "i", "r", "d">>
METRIC_PLACE_RATE == <<"p", "l", "a", "c", "e", "R", "a", "t", "e">>
METRIC_SHOW_RATE == <<"s", "h", "o", "w", "R", "a", "t", "e">>
METRIC_UNPLACED == <<"u", "n", "p", "l", "a", "c", "e", "d">>

\* a / b
Ratio(a, b) == NumberDiv(NumberFromInt(a), NumberFromInt(b))

\* metric is a string
_recordMetricOrNull(rec, metric) ==
    IF rec = Null THEN Null
    ELSE IF rec.starts <= 0
         THEN IF metric.s \in {METRIC_STARTS, METRIC_WIN, METRIC_SECOND, METRIC_THIRD}
              THEN NumberFromInt(rec.starts)
              ELSE Null
    ELSE IF metric.s = METRIC_WIN_RATE THEN Ratio(rec.win, rec.starts)
    ELSE IF metric.s = METRIC_STARTS THEN NumberFromInt(rec.starts)
    ELSE IF metric.s = METRIC_WIN THEN NumberFromInt(rec.win)
    ELSE IF metric.s = METRIC_SECOND THEN NumberFromInt(rec.second)
    ELSE IF metric.s = METRIC_THIRD THEN NumberFromInt(rec.third)
    ELSE IF metric.s = METRIC_PLACE_RATE THEN Ratio(rec.win + rec.second, rec.starts)
    ELSE IF metric.s = METRIC_SHOW_RATE
         THEN Ratio(rec.win + rec.second + rec.third, rec.starts)
    ELSE IF metric.s = METRIC_UNPLACED
         THEN NumberFromInt(rec.starts - (rec.win + rec.second + rec.third))
    ELSE Null

\* metric is a string
getRecordMetricValueFromRaw(raw, metric) ==
    _recordMetricOrNull(_parseRecordOrNull(raw), metric)

----------------------------------------------------------------------------
(* sort.js: sortDataForYear                                                *)
(* The heap is the sequence of the objects there are: row objects and      *)
(* arrays.  A value that is an object is a reference, the index of the     *)
(* object in the heap, so that two arrays with the same rows are two       *)
(* arrays, and a row of the result is the very row of the input.           *)

Ref(id) == [t |-> "ref", id |-> id]
\* an object with its own properties, and obj[key]
Object(props) == [t |-> "object", props |-> props]
Prop(obj, key) == Get(obj.props, key)
ArrayObject(elems) == [t |-> "array", elems |-> elems]

\* Array.isArray(v)
IsArray(h, v) == v.t = "ref" /\ h[v.id].t = "array"

\* a new array: the heap with it, and the reference to it
NewArray(h, elems) == [heap |-> Append(h, ArrayObject(elems)), ref |-> Ref(Len(h) + 1)]

\* !v is false
Truthy(v) == ~IsNullish(v) /\ ~(v.t = "string" /\ v.s = <<>>)

DIRECTION_ASC == <<"a", "s", "c">>
DIRECTION_DESC == <<"d", "e", "s", "c">>

\* the comparator with an unparseable value put first when descending
SortComparator_NullsFollowSign(a, b, sign) ==
    IF ~IsFinite(a.v) /\ ~IsFinite(b.v) THEN a.idx - b.idx
    ELSE IF ~IsFinite(a.v) THEN 1 * sign
    ELSE IF ~IsFinite(b.v) THEN -1 * sign
    ELSE IF NumberCmp(a.v, b.v) < 0 THEN -1 * sign
    ELSE IF NumberCmp(a.v, b.v) > 0 THEN 1 * sign
    ELSE a.idx - b.idx

\* the comparator with equal values in reverse order when descending
SortComparator_TiesFollowSign(a, b, sign) ==
    IF ~IsFinite(a.v) /\ ~IsFinite(b.v) THEN a.idx - b.idx
    ELSE IF ~IsFinite(a.v) THEN 1
    ELSE IF ~IsFinite(b.v) THEN -1
    ELSE IF NumberCmp(a.v, b.v) < 0 THEN -1 * sign
    ELSE IF NumberCmp(a.v, b.v) > 0 THEN 1 * sign
    ELSE (a.idx - b.idx) * sign

\* the function given to decorated.sort; aNull is av == null || !Number.isFinite(av)
SortComparator(a, b, sign) ==
    IF ~IsFinite(a.v) /\ ~IsFinite(b.v) THEN a.idx - b.idx
    ELSE IF ~IsFinite(a.v) THEN 1
    ELSE IF ~IsFinite(b.v) THEN -1
    ELSE IF NumberCmp(a.v, b.v) < 0 THEN -1 * sign
    ELSE IF NumberCmp(a.v, b.v) > 0 THEN 1 * sign
    ELSE a.idx - b.idx

\* Array.prototype.sort, as an insertion sort: x goes before the first element
\* the comparator puts it before.  The comparator is a total order (the last
\* resort is idx), so every sorting algorithm leaves this one order.
RECURSIVE InsertInOrder(_, _, _)
InsertInOrder(sorted, x, sign) ==
    IF sorted = <<>> THEN <<x>>
    ELSE IF SortComparator(x, Head(sorted), sign) < 0 THEN <<x>> \o sorted
    ELSE <<Head(sorted)>> \o InsertInOrder(Tail(sorted), x, sign)
RECURSIVE ArraySort(_, _, _)
ArraySort(elems, n, sign) ==
    IF n = 0 THEN <<>>
    ELSE InsertInOrder(ArraySort(elems, n - 1, sign), elems[n], sign)

\* row ? row[colKey] : null
RawCell(h, row, colKey) == IF row = Null THEN Null ELSE Prop(h[row.id], colKey)

\* sortState.metric || 'winRate'
MetricOf(sortState) ==
    IF Truthy(Prop(sortState, "metric")) THEN Prop(sortState, "metric")
    ELSE Str(METRIC_WIN_RATE)

\* the switch of the decorating callback: v for one raw cell
ComparableValue(type, sortState, rates, raw) ==
    IF type = Str(TYPE_MONEY) THEN _moneyToBaseOrNull(raw, rates)
    ELSE IF type = Str(TYPE_RECORD)
         THEN _recordMetricOrNull(_parseRecordOrNull(raw), MetricOf(sortState))
    ELSE _extractComparableValue(type, raw)

\* arr.map((row, idx) => ({ row, idx, v })), from element i on
RECURSIVE Decorate(_, _, _, _, _, _)
Decorate(h, type, sortState, rates, elems, i) ==
    IF i > Len(elems) THEN <<>>
    ELSE <<[row |-> elems[i], idx |-> i - 1,
            v |-> ComparableValue(type, sortState, rates,
                                  RawCell(h, elems[i], Prop(sortState, "key").s))]>>
           \o Decorate(h, type, sortState, rates, elems, i + 1)

\* decorated.map(x => x.row)
RECURSIVE RowsOf(_)
RowsOf(decorated) ==
    IF decorated = <<>> THEN <<>> ELSE <<Head(decorated).row>> \o RowsOf(Tail(decorated))

\* the sign of an ascending sort, whatever the direction
SignOf_AscendingOnly(sortState) == 1

SignOf(sortState) == IF Prop(sortState, "direction") = Str(DIRECTION_DESC) THEN -1 ELSE 1

\* the array data sorted where it is, and data itself returned
sortDataForYear_InPlace(h, rates, data, year, sortState) ==
    LET Sorted(type) ==
            [heap |-> [h EXCEPT ![data.id].elems =
                           RowsOf(ArraySort(Decorate(h, type, sortState, rates, @, 1),
                                            Len(@), SignOf(sortState)))],
             ref |-> data]
    IN  IF ~IsArray(h, data) THEN NewArray(h, <<>>)
        ELSE IF ~Truthy(sortState) \/ ~Truthy(Prop(sortState, "key"))
                  \/ ~Truthy(Prop(sortState, "direction"))
             THEN [heap |-> h, ref |-> data]
        ELSE IF ~Truthy(getColumnSortType(year, Prop(sortState, "key").s))
             THEN [heap |-> h, ref |-> data]
        ELSE Sorted(getColumnSortType(year, Prop(sortState, "key").s))

\* h is the heap and rates CONFIG.exchangeRates.rates at the call.  What the
\* call leaves: the heap after it and the reference it returns.
sortDataForYear(h, rates, data, year, sortState) ==
    LET \* return decorated.map(x => x.row)
        Result(d) == NewArray(d.heap, RowsOf(d.heap[d.ref.id].elems))
        \* decorated.sort(..): the array decorated itself is put in order
        Sort(d) ==
            Result([d EXCEPT !.heap[d.ref.id].elems =
                                 ArraySort(@, Len(@), SignOf(sortState))])
        \* const decorated = arr.map(..)
        Map(arr, type) ==
            Sort(NewArray(arr.heap,
                          Decorate(arr.heap, type, sortState, rates,
                                   arr.heap[arr.ref.id].elems, 1)))
        \* const arr = [...data]
        Typed(type) ==
            IF ~Truthy(type) THEN NewArray(h, h[data.id].elems)
            ELSE Map(NewArray(h, h[data.id].elems), type)
    IN  IF ~IsArray(h, data) THEN NewArray(h, <<>>)
        ELSE IF ~Truthy(sortState) \/ ~Truthy(Prop(sortState, "key"))
                  \/ ~Truthy(Prop(sortState, "direction"))
             THEN NewArray(h, h[data.id].elems)
        ELSE Typed(getColumnSortType(year, Prop(sortState, "key").s))

\* the static table of config.js: 155.8 is 1558 / 10
Rate(n, decimals) == Number(FALSE, BigFromInt(n), BigPow10(decimals))
StaticRates ==
    (JPY :> Rate(1, 0)) @@ (USD :> Rate(1558, 1)) @@ (AUD :> Rate(1030, 1))
      @@ (HKD :> Rate(2002, 2)) @@ (CNY :> Rate(2213, 2)) @@ (EUR :> Rate(1825, 1))
      @@ (GBP :> Rate(2086, 1)) @@ (SEK :> Rate(1673, 2)) @@ (NOK :> Rate(1526, 2))

\* no call of sortDataForYear is under way
NoSortCall == [data |-> Undefined, year |-> 2025, sortState |-> Null]

\* no cell value is being computed
NoCellCall == [fn |-> "none"]
CellIdle ==
    /\ cellCall = NoCellCall
    /\ cellValue = NotCalled

\* storage.js and the rate service: nothing stored, no call under way
StoreIdle ==
    /\ stored = Null
    /\ now = 1
    /\ rateCall = [pc |-> "idle", calls |-> 0]
    /\ updates = <<>>
    /\ writes = <<>>

\* the page of app.js is not open
AppIdle ==
    /\ appYear = 2025
    /\ currentData = Null
    /\ appSortState = Null
    /\ recordModal = FALSE
    /\ table = [kind |-> "none"]
    /\ loads = {}
    /\ refresh = "done"
    /\ switched = 0
    /\ lastEvent = [kind |-> "none"]

SortIdle ==
    /\ exchangeRates = StaticRates
    /\ sortCall = NoSortCall
    /\ heap = <<>>
    /\ sortReturn = NotCalled
    /\ CellIdle
    /\ AppIdle

----------------------------------------------------------------------------
(* Month bucket of one death text                                          *)

\* "2025-03-15" and the like, a character each
Chars_2025_03_15 == <<"2", "0", "2", "5", "-", "0", "3", "-", "1", "5">>
Chars_2025_3_1 == <<"2", "0", "2", "5", "/", "3", "/", "1">>
Chars_2025_04_02 == <<"2", "0", "2", "5", "-", "0", "4", "-", "0", "2">>
Chars_2024_03_20 == <<"2", "0", "2", "4", "-", "0", "3", "-", "2", "0">>
Chars_2025_13_01 == <<"2", "0", "2", "5", "-", "1", "3", "-", "0", "1">>

\* the pieces a death text is put together from
TextParts == {NOT_LATER_THAN, RANGE_TO, <<" ">>, Chars_2025_03_15, Chars_2025_3_1,
              Chars_2025_04_02, Chars_2024_03_20, Chars_2025_13_01}
MaxParts == 4

RECURSIVE PartSeqs(_)
PartSeqs(n) ==
    IF n = 0 THEN {<<>>}
    ELSE LET shorter == PartSeqs(n - 1)
         IN  shorter \cup {Append(q, p) : q \in {x \in shorter : Len(x) = n - 1}, p \in TextParts}

MonthIdle == deathText = Undefined /\ bucket = NotCalled

\* CONFIG.visualizations.byYear["2025"] of config.js
Panels2025 == <<"month", "age", "mainWins", "raceDeath", "cause", "timeStats">>

RenderIdle == [pc |-> "idle", panels |-> <<>>, agg |-> NotCalled, timeStats |-> NotCalled]

VizIdle ==
    /\ yearRows = <<>>
    /\ currentYear = 2025
    /\ columnsByYear = (2025 :> ColumnMap2025)
    /\ panelsByYear = (2025 :> Panels2025)
    /\ timeZone = "fixed"
    /\ timeStats = NotCalled
    /\ aggregated = NotCalled
    /\ render = RenderIdle

InitMonth ==
    /\ StoreIdle
    /\ deathText \in {Str(Concat(q)) : q \in PartSeqs(MaxParts)}
    /\ bucket = NotCalled
    /\ VizIdle
    /\ SortIdle

CallGetDeathMonthBucket ==
    /\ bucket = NotCalled
    /\ bucket' = getDeathMonthBucket(deathText)
    /\ UNCHANGED <<storeVars, deathText, vizVars, sortVars>>

NextMonth == CallGetDeathMonthBucket

SpecMonth == InitMonth /\ [][NextMonth]_vars

\* "1月" .. "12月", written out
TwelveMonthLabels ==
    << <<"1", "yue4">>, <<"2", "yue4">>, <<"3", "yue4">>, <<"4", "yue4">>,
       <<"5", "yue4">>, <<"6", "yue4">>, <<"7", "yue4">>, <<"8", "yue4">>,
       <<"9", "yue4">>, <<"1", "0", "yue4">>, <<"1", "1", "yue4">>,
       <<"1", "2", "yue4">> >>

\* the bucket the rules of C5 give a trimmed text s from which the dates ds
\* were extracted
RuleBucket(s, ds) ==
    CASE Len(s) = 0 -> UNKNOWN_MONTH_BUCKET
      [] Len(s) > 0 /\ Includes(s, NOT_LATER_THAN) ->
            IF Len(ds) >= 1 THEN TwelveMonthLabels[ds[1].mo] ELSE UNKNOWN_MONTH_BUCKET
      [] Len(s) > 0 /\ ~Includes(s, NOT_LATER_THAN) /\ Includes(s, RANGE_TO) ->
            IF Len(ds) >= 2 /\ ds[1].y = ds[2].y /\ ds[1].mo = ds[2].mo
            THEN TwelveMonthLabels[ds[1].mo] ELSE UNKNOWN_MONTH_BUCKET
      [] OTHER ->
            IF Len(ds) >= 1 THEN TwelveMonthLabels[ds[1].mo] ELSE UNKNOWN_MONTH_BUCKET

MonthCalled == bucket # NotCalled
TrimmedDeathText == Trim(deathText.s)
ExtractedDates == _isoOrSlashDates(Str(TrimmedDeathText))

\* C5 as stated: getDeathMonthBucket maps EVERY death text to one of the 12
\* month labels or the unknown bucket, by the rules in their order.
C5_EveryTextHasABucket ==
    MonthCalled =>
        /\ bucket.ok
        /\ ExtractedDates.ok
        /\ bucket.val = RuleBucket(TrimmedDeathText, ExtractedDates.val)

\* C5 amended: getDeathMonthBucket maps every death text on which date
\* extraction does not raise (no date-shaped match found by the left-to-right
\* scan has a month outside 1..12 or a day outside 1..31) to exactly one of the
\* 12 month labels or the unknown bucket, by the rules in their order (empty
\* after trimming -> unknown; 不晚于 -> month of the first date, unknown if
\* none; 至 -> a month only when the first two dates share year and month,
\* else unknown; otherwise month of the first date, unknown if none); on every
\* other text the call raises and gives no bucket.
C5_BucketByRulesUnlessInvalidDate ==
    MonthCalled =>
        IF Len(TrimmedDeathText) = 0 \/ ExtractedDates.ok
        THEN /\ bucket.ok
             /\ bucket.val = RuleBucket(TrimmedDeathText,
                     IF Len(TrimmedDeathText) = 0 THEN <<>> ELSE ExtractedDates.val)
             /\ \/ bucket.val = UNKNOWN_MONTH_BUCKET
                \/ \E m \in 1..12 : bucket.val = TwelveMonthLabels[m]
        ELSE ~bucket.ok

\* a range whose two dates share the month number but not the year
C5_Witness ==
    /\ MonthCalled
    /\ Includes(TrimmedDeathText, RANGE_TO)
    /\ ~Includes(TrimmedDeathText, NOT_LATER_THAN)
    /\ ExtractedDates.ok
    /\ Len(ExtractedDates.val) >= 2
    /\ ExtractedDates.val[1].mo = ExtractedDates.val[2].mo
    /\ ExtractedDates.val[1].y # ExtractedDates.val[2].y
    /\ bucket = Ok(UNKNOWN_MONTH_BUCKET)

----------------------------------------------------------------------------
(* Time statistics of a year's rows                                        *)

Chars_2025_01_05 == <<"2", "0", "2", "5", "-", "0", "1", "-", "0", "5">>
Chars_2025_01_06 == <<"2", "0", "2", "5", "-", "0", "1", "-", "0", "6">>
Chars_2025_01_20 == <<"2", "0", "2", "5", "-", "0", "1", "-", "2", "0">>
Chars_2025_02_04 == <<"2", "0", "2", "5", "-", "0", "2", "-", "0", "4">>
Chars_2025_03_01 == <<"2", "0", "2", "5", "-", "0", "3", "-", "0", "1">>
Chars_2025_03_20 == <<"2", "0", "2", "5", "-", "0", "3", "-", "2", "0">>

TimeRow(death, name) == (COL_DEATH :> Str(death)) @@ (COL_NAME :> Str(name))

\* rows as the dataset holds them: death text and horse name
TimeRowPool ==
    { TimeRow(Chars_2025_01_05, <<"A">>),
      TimeRow(Chars_2025_01_05, <<"B">>),
      TimeRow(Chars_2025_01_06, <<"A">>),
      TimeRow(Chars_2025_01_20, <<"C">>),
      TimeRow(Chars_2025_02_04, <<>>),
      TimeRow(Chars_2025_03_20, <<"B">>),
      TimeRow(NOT_LATER_THAN \o Chars_2025_01_20, <<"D">>),
      TimeRow(Chars_2025_03_01 \o RANGE_TO \o Chars_2025_03_20, <<"A">>),
      TimeRow(<<" ">>, <<"C">>),
      TimeRow(<<"yue1", "2", "0", "2", "5", "nian2">>, <<"D">>),
      TimeRow(Chars_2025_13_01, <<"C">>) }
MaxTimeRows == 3

RECURSIVE SeqsUpTo(_, _)
SeqsUpTo(pool, n) ==
    IF n = 0 THEN {<<>>}
    ELSE LET shorter == SeqsUpTo(pool, n - 1)
         IN  shorter \cup {Append(q, p) : q \in {x \in shorter : Len(x) = n - 1}, p \in pool}

\* the statistics years, and the zones each is tried in
TimeYearZones ==
    ({2025} \X TimeZones) \cup ({2026, 2027, 2028, 2100, 2000} \X {"fixed"})

InitTime ==
    /\ StoreIdle
    /\ MonthIdle
    /\ SortIdle
    /\ yearRows \in SeqsUpTo(TimeRowPool, MaxTimeRows)
    /\ \E yz \in TimeYearZones :
          /\ currentYear = yz[1]
          /\ timeZone = yz[2]
          /\ columnsByYear = (yz[1] :> ColumnMap2025)
          /\ panelsByYear = (yz[1] :> Panels2025)
    /\ timeStats = NotCalled
    /\ aggregated = NotCalled
    /\ render = RenderIdle

CallComputeTimeStats ==
    /\ timeStats = NotCalled
    /\ timeStats' = computeTimeStats(yearRows, currentYear, columnsByYear, timeZone)
    /\ UNCHANGED <<storeVars, monthVars, vizInputs, sortVars, aggregated, render>>

NextTime == CallComputeTimeStats

SpecTime == InitTime /\ [][NextTime]_vars

\* What the claims say of a row, read off the row itself: whether a date is
\* resolved from its death text, the date (the first one extracted), whether
\* the text holds 不晚于 or 至, and the horse.
RowFact(row) ==
    LET text == Trim(Get(row, COL_DEATH).s)
        dates == _isoOrSlashDates(Str(text))
        resolved == Len(text) > 0 /\ dates.ok /\ Len(dates.val) >= 1
    IN  [resolved |-> resolved,
         date |-> IF resolved
                  THEN NewDate(dates.val[1].y, dates.val[1].mo, dates.val[1].d)
                  ELSE Null,
         imprecise |-> Includes(text, <<"bu4", "wan3", "yu2">>) \/ Includes(text, <<"zhi4">>),
         name |-> HorseName(row, COL_NAME)]

RECURSIVE RowFactsOf(_)
RowFactsOf(rows) ==
    IF rows = <<>> THEN <<>> ELSE <<RowFact(Head(rows))>> \o RowFactsOf(Tail(rows))

TimeCalled == timeStats # NotCalled
RowFacts == RowFactsOf(yearRows)

\* of the facts f of the rows
ResolvedRows(f) == {i \in 1..Len(f) : f[i].resolved}
PreciseRows(f) == {i \in 1..Len(f) : f[i].resolved /\ ~f[i].imprecise}
AllDates(f) == {f[i].date : i \in ResolvedRows(f)}
PreciseDates(f) == {f[i].date : i \in PreciseRows(f)}

\* the Monday of the week of a day: 1970-01-01 was a Thursday
MondayOf(day) == day - ((day - DaysBeforeYear(1970) + 3) % 7)

RECURSIVE Ascending(_)
Ascending(S) ==
    IF S = {} THEN <<>>
    ELSE LET least == CHOOSE x \in S : \A y \in S : x <= y
         IN  <<least>> \o Ascending(S \ {least})

Largest(S) == CHOOSE x \in S : \A y \in S : y <= x

\* the horses of the precise rows of one date, in row order
PreciseNamesOn(f, date) ==
    LET rowsOn == Ascending({i \in PreciseRows(f) : f[i].date = date})
    IN  [k \in 1..Len(rowsOn) |-> f[rowsOn[k]].name]

\* the horses of the precise rows of the week that starts on monday
PreciseNamesOfWeek(f, monday) ==
    {f[i].name : i \in {j \in PreciseRows(f) : MondayOf(f[j].date.day) = monday}}

\* C8: in the time statistics a row whose death text holds 不晚于 or 至 adds
\* its first extracted date to the distinct dates behind avgInterval only: the
\* per-day entry lists, the per-week entry lists and the longest gap are those
\* of the rows without a marker; when no resolved date is precise the three
\* are null, and avgInterval is not null as soon as one date is resolved.
C8_ImpreciseRowsCountOnlyForAvgInterval ==
    (TimeCalled /\ timeStats.ok) =>
        LET st == timeStats.val
            f == RowFacts
            precise == PreciseDates(f)
        IN  /\ AllDates(f) # {} =>
                 /\ st.avgInterval # Null
                 /\ st.avgInterval.den = Cardinality(AllDates(f))
            /\ precise = {} =>
                 /\ st.maxDeathsInOneDay = Null
                 /\ st.maxDeathsInOneWeek = Null
                 /\ st.longestGap = Null
            /\ precise # {} =>
                 /\ st.maxDeathsInOneDay # Null
                 /\ st.maxDeathsInOneDay.count =
                        Largest({Len(PreciseNamesOn(f, d)) : d \in precise})
                 /\ \A k \in 1..Len(st.maxDeathsInOneDay.dates) :
                        \E d \in precise :
                            /\ st.maxDeathsInOneDay.dates[k].key = GetTime(d, timeZone)
                            /\ st.maxDeathsInOneDay.dates[k].val = PreciseNamesOn(f, d)
                 /\ st.maxDeathsInOneWeek # Null
                 /\ st.maxDeathsInOneWeek.count =
                        Largest({Cardinality(PreciseNamesOfWeek(f, MondayOf(d.day))) :
                                    d \in precise})
                 /\ \A k \in 1..Len(st.maxDeathsInOneWeek.weeks) :
                        LET w == st.maxDeathsInOneWeek.weeks[k]
                            names == PreciseNamesOfWeek(f, w.key.monday)
                        IN  /\ w.key.sunday = w.key.monday + 6
                            /\ {w.val[j] : j \in 1..Len(w.val)} = names
                            /\ Len(w.val) = Cardinality(names)
                 /\ st.longestGap # Null =>
                        /\ st.longestGap.start \in precise
                        /\ st.longestGap.end \in precise

\* two precise deaths on one day and an imprecise death on another day: two
\* distinct dates for avgInterval, and the day with most deaths counts the pair
C8_Witness ==
    /\ TimeCalled /\ timeStats.ok
    /\ LET f == RowFacts
       IN  /\ \E i \in ResolvedRows(f) : f[i].imprecise /\ f[i].date \notin PreciseDates(f)
           /\ Cardinality(PreciseRows(f)) = 2
           /\ Cardinality(PreciseDates(f)) = 1
    /\ timeStats.val.avgInterval.den = 2
    /\ timeStats.val.maxDeathsInOneDay.count = 2

\* the number of days of a year, by the rule C9 states
DaysOfYearByRule(y) ==
    IF y % 4 = 0 /\ (y % 100 # 0 \/ y % 400 = 0) THEN 366 ELSE 365

\* C9: computeTimeStats returns avgInterval = D / n, n the number of distinct
\* calendar dates resolved over all rows, precise or not, and D = 366 when the
\* year is divisible by 4 and (not by 100 or by 400), else 365: 366 for 2028,
\* 365 for 2025, 2026, 2027 and 2100; avgInterval is null exactly when n = 0.
C9_AvgIntervalIsDaysOfYearOverDistinctDates ==
    (TimeCalled /\ timeStats.ok) =>
        LET n == Cardinality(AllDates(RowFacts))
            avgInterval == timeStats.val.avgInterval
        IN  /\ (avgInterval = Null) <=> (n = 0)
            /\ n > 0 =>
                  /\ avgInterval.num = DaysOfYearByRule(currentYear)
                  /\ avgInterval.den = n
                  /\ currentYear = 2028 => avgInterval.num = 366
                  /\ currentYear \in {2025, 2026, 2027, 2100} => avgInterval.num = 365

\* the year 2100, three rows, two of them on the same date: 365 / 2
C9_Witness ==
    /\ TimeCalled /\ timeStats.ok
    /\ currentYear = 2100
    /\ Cardinality(ResolvedRows(RowFacts)) = 3
    /\ timeStats.val.avgInterval = [num |-> 365, den |-> 2]

\* The longest gap C10 states, days being the distinct precise days in
\* ascending order: the first adjacent pair with the largest number of days
\* strictly between, null when there is no pair or no day between any pair.
StatedLongestGap(days) ==
    LET pairs == 1..(Len(days) - 1)
        Between(k) == days[k + 1] - days[k] - 1
    IN  IF pairs = {} \/ \A k \in pairs : Between(k) <= 0 THEN Null
        ELSE LET first == CHOOSE k \in pairs :
                            /\ \A j \in pairs : Between(j) <= Between(k)
                            /\ \A j \in pairs : j < k => Between(j) < Between(k)
             IN  [days |-> Between(first), start |-> days[first], end |-> days[first + 1]]

PreciseDaysAscending == Ascending({d.day : d \in PreciseDates(RowFacts)})

LongestGapAsStated ==
    LET stated == StatedLongestGap(PreciseDaysAscending)
        longestGap == timeStats.val.longestGap
    IN  IF stated = Null THEN longestGap = Null
        ELSE /\ longestGap # Null
             /\ longestGap.days = stated.days
             /\ longestGap.start.day = stated.start
             /\ longestGap.end.day = stated.end

\* C10 as stated: longestGap is the adjacent pair of distinct precise dates,
\* sorted ascending, with the most whole days strictly between them (day
\* difference minus 1), the first such pair on a tie, and null when there is
\* a single precise date or no pair with a gap greater than 0.
C10_LongestGapIsDaysStrictlyBetween ==
    (TimeCalled /\ timeStats.ok /\ Len(PreciseDaysAscending) > 0) => LongestGapAsStated

\* C10 where the clock keeps one UTC offset all year: there the statement holds
C10_HoldsWithoutClockChange ==
    (TimeCalled /\ timeStats.ok /\ timeZone = "fixed" /\ Len(PreciseDaysAscending) > 0)
        => LongestGapAsStated

\* C10 across the start of summer time: 2025-01-05 and 2025-03-20 are 74 days
\* apart, 73 days lie between them, and the code reports 72
C10_ClockChangeWitness ==
    /\ TimeCalled /\ timeStats.ok
    /\ timeZone = "dst"
    /\ Len(yearRows) = 2
    /\ StatedLongestGap(PreciseDaysAscending) # Null
    /\ StatedLongestGap(PreciseDaysAscending).days = 73
    /\ timeStats.val.longestGap # Null
    /\ timeStats.val.longestGap.days = 72

\* the number of precise rows on a date
PreciseRowsOn(f, date) == Cardinality({i \in PreciseRows(f) : f[i].date = date})

\* C11: maxDeathsInOneDay.count is the largest number of rows with a precise
\* death date on one calendar date, and maxDeathsInOneDay.dates lists every
\* date that reaches that count, each once, none below the count, each with
\* the names of all the rows of that date.
C11_MaxDayCountsRowsAndListsAllTies ==
    (TimeCalled /\ timeStats.ok /\ PreciseDates(RowFacts) # {}) =>
        LET f == RowFacts
            precise == PreciseDates(f)
            most == Largest({PreciseRowsOn(f, d) : d \in precise})
            tied == {d \in precise : PreciseRowsOn(f, d) = most}
            maxDay == timeStats.val.maxDeathsInOneDay
        IN  /\ maxDay # Null
            /\ maxDay.count = most
            /\ Len(maxDay.dates) = Cardinality(tied)
            /\ {maxDay.dates[k].key : k \in 1..Len(maxDay.dates)} =
                   {GetTime(d, timeZone) : d \in tied}
            /\ \A k \in 1..Len(maxDay.dates) : \A d \in tied :
                   maxDay.dates[k].key = GetTime(d, timeZone) =>
                       /\ Len(maxDay.dates[k].val) = most
                       /\ maxDay.dates[k].val = PreciseNamesOn(f, d)

\* three precise rows on three dates: every date ties at count 1 and is listed
C11_Witness ==
    /\ TimeCalled /\ timeStats.ok
    /\ Cardinality(PreciseRows(RowFacts)) = 3
    /\ Cardinality(PreciseDates(RowFacts)) = 3
    /\ timeStats.val.maxDeathsInOneDay # Null
    /\ timeStats.val.maxDeathsInOneDay.count = 1
    /\ Len(timeStats.val.maxDeathsInOneDay.dates) = 3

\* Sunday, by the day count: 1970-01-04 was a Sunday
IsSunday(day) == (day - DaysBeforeYear(1970) - 3) % 7 = 0

\* the Monday-to-Sunday week a day belongs to, named by its Monday: a Sunday
\* belongs to the week that began six days earlier
WeekOf(day) ==
    IF IsSunday(day) THEN day - 6
    ELSE CHOOSE monday \in (day - 5)..day : IsSunday(monday - 1)

\* the distinct horse names of the precise rows of the week of a Monday
NamesOfWeek(f, monday) ==
    {f[i].name : i \in {j \in PreciseRows(f) : WeekOf(f[j].date.day) = monday}}

\* C12: maxDeathsInOneWeek.count is the maximum, over Monday-to-Sunday weeks,
\* of the number of distinct horse names with a precise death date in the
\* week, a Sunday belonging to the week that began on the Monday six days
\* earlier and a name on two rows of one week counting once; every week tied
\* at the maximum is reported, each once.
C12_MaxWeekCountsDistinctNamesMondayToSunday ==
    (TimeCalled /\ timeStats.ok /\ PreciseDates(RowFacts) # {}) =>
        LET f == RowFacts
            mondays == {WeekOf(d.day) : d \in PreciseDates(f)}
            most == Largest({Cardinality(NamesOfWeek(f, m)) : m \in mondays})
            tied == {m \in mondays : Cardinality(NamesOfWeek(f, m)) = most}
            maxWeek == timeStats.val.maxDeathsInOneWeek
        IN  /\ maxWeek # Null
            /\ maxWeek.count = most
            /\ Len(maxWeek.weeks) = Cardinality(tied)
            /\ {maxWeek.weeks[k].key : k \in 1..Len(maxWeek.weeks)} =
                   {[monday |-> m, sunday |-> m + 6] : m \in tied}
            /\ \A k \in 1..Len(maxWeek.weeks) :
                   LET w == maxWeek.weeks[k]
                   IN  /\ Len(w.val) = most
                       /\ {w.val[j] : j \in 1..Len(w.val)} = NamesOfWeek(f, w.key.monday)

\* a horse on a Sunday and on the Monday after it, and another horse on that
\* Sunday: the Sunday's week counts two names, the Monday's week one
C12_Witness ==
    /\ TimeCalled /\ timeStats.ok
    /\ LET f == RowFacts
       IN  /\ Cardinality(PreciseRows(f)) = 3
           /\ \E i, j \in PreciseRows(f) :
                 /\ IsSunday(f[i].date.day)
                 /\ f[j].date.day = f[i].date.day + 1
                 /\ f[i].name = f[j].name
    /\ timeStats.val.maxDeathsInOneWeek # Null
    /\ timeStats.val.maxDeathsInOneWeek.count = 2
    /\ Len(timeStats.val.maxDeathsInOneWeek.weeks) = 1

\* C28: whenever computeTimeStats returns both maxDeathsInOneDay and
\* maxDeathsInOneWeek non-null, the week's count is at least the day's
\* count, for every row set, also when two rows carry the same horse name
\* or no horse name.
C28_WeekMaxAtLeastDayMax ==
    (/\ TimeCalled /\ timeStats.ok
     /\ timeStats.val.maxDeathsInOneDay # Null
     /\ timeStats.val.maxDeathsInOneWeek # Null) =>
        timeStats.val.maxDeathsInOneWeek.count >= timeStats.val.maxDeathsInOneDay.count

\* two rows of one horse name on one precise date and nothing else: the day
\* counts both rows, the week counts the name once
C28_SameNameSameDayWitness ==
    /\ TimeCalled /\ timeStats.ok
    /\ Len(yearRows) = 2
    /\ yearRows[1] = yearRows[2]
    /\ Cardinality(PreciseRows(RowFacts)) = 2
    /\ timeStats.val.maxDeathsInOneDay # Null
    /\ timeStats.val.maxDeathsInOneWeek # Null
    /\ timeStats.val.maxDeathsInOneDay.count = 2
    /\ timeStats.val.maxDeathsInOneWeek.count = 1

\* two rows without a horse name on one precise date: both are 未知 to the
\* week, which counts 1 where the day counts 2
C28_NoNameWitness ==
    /\ TimeCalled /\ timeStats.ok
    /\ Len(yearRows) = 2
    /\ yearRows[1] = TimeRow(Chars_2025_02_04, <<>>)
    /\ yearRows[2] = TimeRow(Chars_2025_02_04, <<>>)
    /\ timeStats.val.maxDeathsInOneDay.count = 2
    /\ timeStats.val.maxDeathsInOneWeek.count = 1

----------------------------------------------------------------------------
(* Aggregation of a year's rows: direct calls, and renderForYear            *)

\* cells: 5岁, 不详, X（G1）, 原因/心脏|殒命赛场/平地
Chars_5_sui == <<"5", "sui4">>
Chars_unknown_age == <<"bu4", "xiang2">>
Chars_win_G1 == <<"X">> \o Paren(<<"G", "1">>)
Chars_cause_heart_flat ==
    PREFIX_CAUSE \o <<"xin1", "zang4">> \o <<"|">> \o PREFIX_RACE_DEATH \o VENUE_FLAT
Chars_2025_3_32 == <<"2", "0", "2", "5", "-", "3", "-", "3", "2">>
Chars_about_2025 == <<"yue1", "2", "0", "2", "5", "nian2">>

AggRow5(death, age, wins, cause, name) ==
    (COL_DEATH :> death) @@ (COL_AGE :> age) @@ (COL_MAIN_WINS :> wins)
      @@ (COL_CAUSE_STATS :> cause) @@ (COL_NAME :> name)

WithoutColumn(row, col) == [c \in (DOMAIN row) \ {col} |-> row[c]]

GoodRow ==
    AggRow5(Str(Chars_2025_03_15), Str(Chars_5_sui), Str(Chars_win_G1),
            Str(Chars_cause_heart_flat), Str(<<"A">>))

\* rows as a dataset can hold them: well-formed, blank, unparseable, with a
\* date-shaped text whose month or day is out of range, without a column
AggRowPool ==
    { GoodRow,
      AggRow5(Str(<<>>), Str(<<" ">>), Str(<<>>), Str(<<" ">>), Str(<<>>)),
      AggRow5(Str(Chars_about_2025), Str(Chars_unknown_age), Str(<<"X">>),
              Str(<<"X", "|", "|">>), Str(<<"B">>)),
      [GoodRow EXCEPT ![COL_DEATH] = Str(Chars_2025_13_01)],
      [GoodRow EXCEPT ![COL_DEATH] =
          Str(Chars_2025_03_15 \o RANGE_TO \o Chars_2025_3_32)],
      [GoodRow EXCEPT ![COL_DEATH] = Str(NOT_LATER_THAN \o Chars_2025_04_02)],
      WithoutColumn(GoodRow, COL_AGE),
      WithoutColumn(GoodRow, COL_DEATH) }
MaxAggRows == 2

\* CONFIG.visualizations.byYear[year]: the list of config.js and other lists
PanelLists ==
    { Panels2025, <<"timeStats">>, <<>>, <<"age">>, <<"month", "timeStats">>,
      <<"age", "mainWins", "cause">>, <<"gender", "month">> }

\* CONFIG.visualizations.columnsByYear[year]: the map of config.js and maps
\* with a mapping missing or empty
ColumnMaps ==
    { ColumnMap2025,
      WithoutColumn(ColumnMap2025, COL_NAME),
      WithoutColumn(ColumnMap2025, COL_AGE),
      [ColumnMap2025 EXCEPT ![COL_DEATH] = Str(<<" ">>)] }

InitAgg ==
    /\ StoreIdle
    /\ MonthIdle
    /\ SortIdle
    /\ yearRows \in SeqsUpTo(AggRowPool, MaxAggRows)
    /\ currentYear \in {2025, 2026}
    /\ columnsByYear \in {(2025 :> m) : m \in ColumnMaps}
    /\ panelsByYear \in {(2025 :> l) : l \in PanelLists}
    /\ timeZone = "fixed"
    /\ timeStats = NotCalled
    /\ aggregated = NotCalled
    /\ render = RenderIdle

\* aggregateForYear(rows, year, panels) on the year's configured panel list
CallAggregateForYear ==
    /\ aggregated = NotCalled
    /\ currentYear \in DOMAIN panelsByYear
    /\ aggregated' = aggregateForYear(yearRows, currentYear, panelsByYear[currentYear],
                                      columnsByYear)
    /\ UNCHANGED <<storeVars, monthVars, vizInputs, sortVars, timeStats, render>>

\* renderForYear up to its await: _buildPanelsForYear
RenderForYear ==
    /\ render.pc = "idle"
    /\ LET got == _getPanelsForYear(panelsByYear, currentYear)
           sat == _assertPanelsColumnsSatisfied(columnsByYear, currentYear, got.val)
       IN  render' =
             IF ~got.ok THEN [render EXCEPT !.pc = "failed"]
             ELSE IF ~sat.ok THEN [render EXCEPT !.pc = "failed", !.panels = got.val]
             ELSE [render EXCEPT !.pc = "loading", !.panels = got.val]
    /\ UNCHANGED <<storeVars, monthVars, vizInputs, sortVars, timeStats, aggregated>>

\* renderForYear after loadData resolved: the rows are checked, aggregated,
\* the time statistics computed, the charts and statistics rendered
LoadDataResolved ==
    /\ render.pc = "loading"
    /\ LET have == _assertRowsHaveColumns(columnsByYear, currentYear, yearRows, render.panels)
           agg == aggregateForYear(yearRows, currentYear, render.panels, columnsByYear)
           stats == computeTimeStats(yearRows, currentYear, columnsByYear, timeZone)
       IN  render' =
             IF ~have.ok THEN [render EXCEPT !.pc = "failed", !.agg = have]
             ELSE IF ~agg.ok THEN [render EXCEPT !.pc = "failed", !.agg = agg]
             ELSE IF ~stats.ok
                  THEN [render EXCEPT !.pc = "failed", !.agg = agg, !.timeStats = stats]
             ELSE [render EXCEPT !.pc = "done", !.agg = agg, !.timeStats = stats]
    /\ UNCHANGED <<storeVars, monthVars, vizInputs, sortVars, timeStats, aggregated>>

\* loadData rejected: the dataset could not be fetched
LoadDataRejected ==
    /\ render.pc = "loading"
    /\ render' = [render EXCEPT !.pc = "failed"]
    /\ UNCHANGED <<storeVars, monthVars, vizInputs, sortVars, timeStats, aggregated>>

NextAgg ==
    \/ CallAggregateForYear
    \/ CallComputeTimeStats
    \/ RenderForYear
    \/ LoadDataResolved
    \/ LoadDataRejected

SpecAgg == InitAgg /\ [][NextAgg]_vars

\* What the claims say of the rows and of the configuration, read off them.

\* every match the global scan of the date pattern finds in a text, unvalidated
RECURSIVE ScanDates(_, _)
ScanDates(s, i) ==
    LET Next(m) == IF ~m.found THEN <<>> ELSE <<m>> \o ScanDates(s, m.next)
    IN  Next(ExecDateFrom(s, i))

OutOfRange(m) == m.mo \notin 1..12 \/ m.d \notin 1..31

\* the death text of the row holds a date-shaped match out of range
HasInvalidDate(row) ==
    LET cell == Get(row, COL_DEATH)
        found == ScanDates(Trim(cell.s), 1)
    IN  IsString(cell) /\ \E k \in 1..Len(found) : OutOfRange(found[k])

AnyInvalidDate == \E i \in 1..Len(yearRows) : HasInvalidDate(yearRows[i])
InvalidDateErrors == {Throw("Invalid month"), Throw("Invalid day")}
Requested(panels, name) == \E i \in 1..Len(panels) : panels[i] = name
YearPanels == IF currentYear \in DOMAIN panelsByYear THEN panelsByYear[currentYear] ELSE <<>>

\* C6: a date-shaped match of the extraction whose month is outside 1..12 or
\* whose day is outside 1..31 is an error: the extraction raises on the text,
\* and aggregateForYear with the month panel requested, computeTimeStats and
\* renderForYear on rows of which one holds such a text raise and give no
\* result, whatever the other rows hold.
C6_InvalidDateRaisesEverywhere ==
    /\ \A i \in 1..Len(yearRows) :
          HasInvalidDate(yearRows[i]) =>
              /\ _isoOrSlashDates(Get(yearRows[i], COL_DEATH)) \in InvalidDateErrors
              /\ getDeathMonthBucket(Get(yearRows[i], COL_DEATH)) \in InvalidDateErrors
              /\ _parseDeathDate(Get(yearRows[i], COL_DEATH)) \in InvalidDateErrors
    /\ (aggregated # NotCalled /\ AnyInvalidDate /\ Requested(YearPanels, "month")) =>
          /\ ~aggregated.ok
          /\ "val" \notin DOMAIN aggregated
    /\ (timeStats # NotCalled /\ AnyInvalidDate) =>
          /\ ~timeStats.ok
          /\ "val" \notin DOMAIN timeStats
    /\ (render.agg # NotCalled /\ AnyInvalidDate /\ Requested(render.panels, "month")) =>
          /\ render.pc = "failed"
          /\ ~render.agg.ok
          /\ "val" \notin DOMAIN render.agg

\* a well-formed row, then a row with month 13: both calls raise on the
\* second row, and nothing of the first row is returned
C6_Witness ==
    /\ Len(yearRows) = 2
    /\ ~HasInvalidDate(yearRows[1])
    /\ HasInvalidDate(yearRows[2])
    /\ Requested(YearPanels, "month")
    /\ aggregated = Throw("Invalid month")
    /\ timeStats = Throw("Invalid month")

\* the three violations of the configuration C7 names
Unmapped(col) ==
    \/ currentYear \notin DOMAIN columnsByYear
    \/ LET actual == Get(columnsByYear[currentYear], col)
       IN  ~IsString(actual) \/ Trim(actual.s) = <<>>
RequiredBy(panels, types) ==
    UNION {{PANEL_DEFS[panels[i]].requires[k] :
                k \in 1..Len(PANEL_DEFS[panels[i]].requires)} :
           i \in {j \in 1..Len(panels) : PANEL_DEFS[panels[j]].type \in types}}
MissingMapping(panels) == \E col \in RequiredBy(panels, {"chart", "stats"}) : Unmapped(col)
EmptyRequired(panels) == RequiredBy(panels, {"chart"}) = {}
RowLacksColumn(panels) ==
    \E col \in RequiredBy(panels, {"chart"}) :
        /\ ~Unmapped(col)
        /\ \E i \in 1..Len(yearRows) :
              columnsByYear[currentYear][col].s \notin DOMAIN yearRows[i]
AllCellsAreText ==
    \A i \in 1..Len(yearRows) : \A c \in DOMAIN yearRows[i] : IsString(yearRows[i][c])

\* C7: the aggregation of a year's panels, as renderForYear runs it, fails and
\* gives no aggregate when a requested panel's required field has no mapping
\* or an empty one for the year, when the requested panels require no field
\* for a chart (only the time statistics, say), or when a row lacks a resolved
\* column; in no other case does a blank or unparseable cell make it fail.
C7_FailsOnlyOnConfigurationViolations ==
    /\ (render.pc # "idle" /\ MissingMapping(render.panels)) =>
          /\ render.pc = "failed"
          /\ render.agg = NotCalled
    /\ (render.agg # NotCalled
          /\ (EmptyRequired(render.panels) \/ RowLacksColumn(render.panels))) =>
          /\ render.pc = "failed"
          /\ ~render.agg.ok
    /\ (render.agg # NotCalled
          /\ ~EmptyRequired(render.panels) /\ ~RowLacksColumn(render.panels)
          /\ AllCellsAreText
          /\ ~(AnyInvalidDate /\ Requested(render.panels, "month"))) =>
          render.agg.ok
    /\ (aggregated # NotCalled
          /\ (\E col \in RequiredBy(YearPanels, {"chart"}) : Unmapped(col))) =>
          ~aggregated.ok
    /\ (aggregated # NotCalled /\ RowLacksColumn(YearPanels)) => ~aggregated.ok

\* only the time statistics are requested and the rows, one of them blank,
\* are loaded: no field is required for a chart, and there is no aggregate
C7_Witness ==
    /\ render.panels = <<"timeStats">>
    /\ Len(yearRows) = 2
    /\ render.pc = "failed"
    /\ render.agg = Throw("No required columns resolved")

----------------------------------------------------------------------------
(* Sorting one array of rows                                               *)

Chars_2001_03_15 == <<"2", "0", "0", "1", "-", "0", "3", "-", "1", "5">>
Chars_2001_3_15_slash == <<"2", "0", "0", "1", "/", "3", "/", "1", "5">>
Chars_1998_05_02 == <<"1", "9", "9", "8", "-", "0", "5", "-", "0", "2">>
Chars_24_sui == <<"2", "4", "sui4">>
Chars_24_space_sui == <<"2", "4", " ", "sui4">>
Chars_3_wan_USD == <<"3", WAN, "U", "S", "D">>
Chars_6000_wan_yen == <<"6", "0", "0", "0", WAN, "yen">>
Chars_8000 == <<"8", "0", "0", "0">>
Chars_467_4_wan_ri_yuan == <<"4", "6", "7", ".", "4", WAN, "ri4", YUAN>>
Chars_1_5_yi_HKD == <<"1", ".", "5", YI, "H", "K", "D">>
Chars_37_11_4_3 == <<"3", "7", "-", "1", "1", "-", "4", "-", "3">>
Chars_74_22_0_0 == <<"7", "4", "-", "2", "2", "-", "0", "-", "0">>
Chars_0_0_0_0 == <<"0", "-", "0", "-", "0", "-", "0">>
Chars_9_2_1 == <<"9", "-", "2", "-", "1">>

SortRow(name, birth, death, age, prize, record) ==
    Object((COL_NAME :> Str(<<name>>)) @@ (COL_BIRTH :> birth) @@ (COL_DEATH :> death)
             @@ (COL_AGE :> age) @@ (COL_PRIZE :> prize) @@ (COL_RECORD :> record))

\* The row objects of the heap.  Every sortable column has two rows with one
\* comparable value written two ways and a row with no comparable value; the
\* last row has three of the columns only.
SortRowObjects ==
    << SortRow("A", Str(Chars_2001_03_15), Str(Chars_2025_03_15), Str(Chars_24_sui),
               Str(Chars_3_wan_USD), Str(Chars_37_11_4_3)),
       SortRow("B", Str(Chars_2001_03_15), Str(NOT_LATER_THAN \o Chars_2025_3_1),
               Str(Chars_24_space_sui), Str(Chars_6000_wan_yen), Str(Chars_74_22_0_0)),
       SortRow("C", Str(Chars_2001_3_15_slash), Str(Chars_about_2025), Num(24),
               Str(Chars_8000), Str(Chars_0_0_0_0)),
       SortRow("D", Str(Chars_1998_05_02),
               Str(Chars_2024_03_20 \o RANGE_TO \o Chars_2025_04_02), Str(Chars_5_sui),
               Str(Chars_467_4_wan_ri_yuan), Str(Chars_9_2_1)),
       Object((COL_NAME :> Str(<<"E">>)) @@ (COL_DEATH :> Str(Chars_2025_03_15))
                @@ (COL_PRIZE :> Str(Chars_1_5_yi_HKD))) >>

\* what an element of the array data can be: a row, or null
SortElements == {Ref(k) : k \in 1..Len(SortRowObjects)} \cup {Null}
MaxSortRows == 3

Directive(key, direction) ==
    Object(("key" :> Str(key)) @@ ("direction" :> Str(direction)))
RecordDirective(direction, metric) ==
    Object(("key" :> Str(COL_RECORD)) @@ ("direction" :> Str(direction))
             @@ ("metric" :> Str(metric)))

Directions == {DIRECTION_ASC, DIRECTION_DESC}

\* the sort states tried: none, incomplete ones, every column in both
\* directions (马名 has no sort type), a direction that is neither, and the
\* record column by the default metric, by three metrics and by no metric
SortStates ==
    {Null, Object(<<>>), Object(("key" :> Str(COL_AGE))),
     Object(("direction" :> Str(DIRECTION_DESC))),
     Directive(<<>>, DIRECTION_ASC), Directive(COL_AGE, <<>>),
     Directive(COL_AGE, <<"u", "p">>)}
      \cup {Directive(key, d) :
              key \in {COL_BIRTH, COL_DEATH, COL_AGE, COL_PRIZE, COL_RECORD, COL_NAME},
              d \in Directions}
      \cup {RecordDirective(d, m) :
              d \in Directions,
              m \in {METRIC_STARTS, METRIC_WIN, METRIC_UNPLACED, <<"x">>}}

\* a table a refresh left: the base, and 1 / 0.0065 for the one currency the
\* rate service answered for
RefreshedRates ==
    (JPY :> Rate(1, 0)) @@ (USD :> NumberDiv(Rate(1, 0), Rate(65, 4)))

\* a table a refresh left after the rate service answered 5e-324 for USD:
\* 1 / 5e-324 is Infinity
OverflowedRates == (JPY :> Rate(1, 0)) @@ (USD :> PositiveInfinity)

\* year, rate table and sort state of the calls tried
SortCases ==
    ({2025} \X {StaticRates} \X SortStates)
      \cup ({2024} \X {StaticRates}
              \X {Directive(COL_BIRTH, DIRECTION_ASC), Directive(COL_DEATH, DIRECTION_DESC)})
      \cup ({2025} \X {RefreshedRates, OverflowedRates}
              \X {Directive(COL_PRIZE, DIRECTION_ASC), Directive(COL_PRIZE, DIRECTION_DESC)})

\* The argument data is an array of up to MaxSortRows elements, or null, or a
\* row object.
InitSort ==
    /\ StoreIdle
    /\ MonthIdle
    /\ VizIdle
    /\ \E c \in SortCases :
          /\ exchangeRates = c[2]
          /\ \/ \E elems \in SeqsUpTo(SortElements, MaxSortRows) :
                   /\ heap = Append(SortRowObjects, ArrayObject(elems))
                   /\ sortCall = [data |-> Ref(Len(SortRowObjects) + 1),
                                  year |-> c[1], sortState |-> c[3]]
             \/ /\ heap = SortRowObjects
                /\ sortCall \in {[data |-> d, year |-> c[1], sortState |-> c[3]] :
                                 d \in {Null, Ref(1)}}
    /\ sortReturn = NotCalled
    /\ CellIdle
    /\ AppIdle

CallSortDataForYear ==
    /\ sortCall # NoSortCall
    /\ sortReturn = NotCalled
    /\ \E r \in {sortDataForYear(heap, exchangeRates, sortCall.data, sortCall.year,
                                 sortCall.sortState)} :
          /\ heap' = r.heap
          /\ sortReturn' = Ok(r.ref)
    /\ UNCHANGED <<storeVars, monthVars, vizVars, exchangeRates, sortCall, cellVars, appVars>>

NextSort == CallSortDataForYear

SpecSort == InitSort /\ [][NextSort]_vars

\* the step is a call of sortDataForYear on an array
SortStep ==
    /\ sortReturn = NotCalled
    /\ sortReturn' # NotCalled
    /\ IsArray(heap, sortCall.data)

\* the elements of the array data before the call, and of the array returned
InputElems == heap[sortCall.data.id].elems
ReturnedElems == heap[sortReturn.val.id].elems

\* the directive has a key and a direction
HasKey == sortCall.sortState # Null /\ Truthy(Prop(sortCall.sortState, "key"))
HasDirection == sortCall.sortState # Null /\ Truthy(Prop(sortCall.sortState, "direction"))
SortKey == Prop(sortCall.sortState, "key").s
AscOrDesc ==
    Prop(sortCall.sortState, "direction") \in {Str(DIRECTION_ASC), Str(DIRECTION_DESC)}
Descending == Prop(sortCall.sortState, "direction") = Str(DIRECTION_DESC)

\* config.js gives the column of the directive a sort type for the year
TypeConfigured ==
    /\ sortCall.year \in DOMAIN SortableColumns
    /\ SortKey \in DOMAIN SortableColumns[sortCall.year]

\* the comparable value of each element of the array data, in its order
InputValues ==
    LET d == Decorate(heap, SortableColumns[sortCall.year][SortKey].type,
                      sortCall.sortState, exchangeRates, InputElems, 1)
    IN  [k \in 1..Len(d) |-> d[k].v]

\* the ways to reorder n elements: p[k] is the place in the input of the
\* element at place k of the output
Reorderings(n) == {p \in [1..n -> 1..n] : \A j, k \in 1..n : p[j] = p[k] => j = k}

IsReordering(p, in, out) ==
    /\ Len(out) = Len(in)
    /\ \A k \in 1..Len(in) : out[k] = in[p[k]]

\* C1: when the directive names a column with a configured sort type, in
\* direction asc and in direction desc alike, the returned array lists every
\* row with a finite comparable value before every row whose comparable value
\* is null or not finite, and the rows with such a value come last in the
\* order they had in the input.
C1_UnparseableRowsLastInOriginalOrder ==
    [][(SortStep /\ HasKey /\ HasDirection /\ AscOrDesc /\ TypeConfigured) =>
          LET v == InputValues
          IN  \E p \in Reorderings(Len(InputElems)) :
                 /\ IsReordering(p, InputElems, ReturnedElems')
                 /\ \A j, k \in 1..Len(InputElems) :
                       (j < k /\ ~IsFinite(v[p[j]])) => (~IsFinite(v[p[k]]) /\ p[j] < p[k])]_vars

\* descending, a row without a comparable value and a null element ahead of a
\* row with one in the input: they come out behind it, in their order
C1_Witness ==
    /\ sortReturn.ok
    /\ sortCall.sortState = Directive(COL_AGE, DIRECTION_DESC)
    /\ sortCall.year = 2025
    /\ InputElems = <<Ref(3), Null, Ref(1)>>
    /\ ReturnedElems = <<Ref(1), Ref(3), Null>>

\* C2: when the directive names a column with a configured sort type, the
\* rows with finite comparable values come out in non-decreasing order of
\* value for asc and in non-increasing order for desc, and rows with equal
\* values come out in the order they had in the input, in both directions.
C2_SortedByValueTiesInOriginalOrder ==
    [][(SortStep /\ HasKey /\ HasDirection /\ AscOrDesc /\ TypeConfigured) =>
          LET v == InputValues
          IN  \E p \in Reorderings(Len(InputElems)) :
                 /\ IsReordering(p, InputElems, ReturnedElems')
                 /\ \A j, k \in 1..Len(InputElems) :
                       (j < k /\ IsFinite(v[p[j]]) /\ IsFinite(v[p[k]])) =>
                          LET c == NumberCmp(v[p[j]], v[p[k]])
                          IN  /\ IF Descending THEN c >= 0 ELSE c <= 0
                              /\ c = 0 => p[j] < p[k]]_vars

\* descending by prize: 467.4万日元 and 3万USD are one amount under the static
\* table and stay in their input order behind 6000万円
C2_Witness ==
    /\ sortReturn.ok
    /\ exchangeRates = StaticRates
    /\ sortCall.sortState = Directive(COL_PRIZE, DIRECTION_DESC)
    /\ InputElems = <<Ref(4), Ref(2), Ref(1)>>
    /\ ReturnedElems = <<Ref(2), Ref(4), Ref(1)>>

\* C3: when the directive is null, has no key, has no direction, or names a
\* column without a sort type for the year, the returned array holds the
\* elements of the input in the order of the input.
C3_IdentityWithoutUsableDirective ==
    [][(SortStep /\ (~HasKey \/ ~HasDirection \/ ~TypeConfigured)) =>
          ReturnedElems' = InputElems]_vars

\* 出生 has a sort type for 2025 and none for 2024: the later birth stays first
C3_Witness ==
    /\ sortReturn.ok
    /\ sortCall.year = 2024
    /\ sortCall.sortState = Directive(COL_BIRTH, DIRECTION_ASC)
    /\ InputElems = <<Ref(1), Ref(4)>>
    /\ ReturnedElems = <<Ref(1), Ref(4)>>

\* C4: a call on an array leaves every object there was as it was, the array
\* data among them; the array returned is not one of them, and it holds the
\* elements of the input, each as many times as the input does.
C4_InputUntouchedResultFresh ==
    [][SortStep =>
          /\ \A id \in 1..Len(heap) : heap'[id] = heap[id]
          /\ sortReturn'.ok
          /\ sortReturn'.val.id \notin 1..Len(heap)
          /\ IsArray(heap', sortReturn'.val)
          /\ \E p \in Reorderings(Len(InputElems)) :
                IsReordering(p, InputElems, ReturnedElems')]_vars

\* ascending by age, the older horse first in the input: the array returned
\* is another array in another order, and the input is as it was
C4_Witness ==
    /\ sortReturn.ok
    /\ sortCall.sortState = Directive(COL_AGE, DIRECTION_ASC)
    /\ sortCall.year = 2025
    /\ InputElems = <<Ref(1), Ref(4), Ref(1)>>
    /\ ReturnedElems = <<Ref(4), Ref(1), Ref(1)>>
    /\ sortReturn.val # sortCall.data

----------------------------------------------------------------------------
(* The record metric of one cell                                           *)

\* "starts-win-second-third" written with the separator sep
RecordText(starts, win, second, third, sep) ==
    NumberToString(starts) \o sep \o NumberToString(win) \o sep
      \o NumberToString(second) \o sep \o NumberToString(third)

\* the record cells tried: every combination of a few counts, a record with
\* blanks around its dashes, and cells that hold no record
RecordCells ==
    {Str(RecordText(st, w, se, th, <<"-">>)) :
        st \in {0, 5, 37}, w \in {0, 1, 11}, se \in {0, 4}, th \in {0, 3}}
      \cup {Str(RecordText(37, 11, 4, 3, <<" ", "-", " ">>)), Str(Chars_9_2_1),
            Str(<<>>), Str(Chars_about_2025), Null, Undefined}

Metrics ==
    {METRIC_WIN_RATE, METRIC_STARTS, METRIC_WIN, METRIC_SECOND, METRIC_THIRD,
     METRIC_PLACE_RATE, METRIC_SHOW_RATE, METRIC_UNPLACED}

InitRecord ==
    /\ StoreIdle
    /\ MonthIdle
    /\ VizIdle
    /\ exchangeRates = StaticRates
    /\ sortCall = NoSortCall
    /\ heap = <<>>
    /\ sortReturn = NotCalled
    /\ cellCall \in {[fn |-> "getRecordMetricValueFromRaw", raw |-> raw, metric |-> Str(m)] :
                        raw \in RecordCells, m \in Metrics \cup {<<"x">>}}
    /\ cellValue = NotCalled
    /\ AppIdle

CallGetRecordMetricValueFromRaw ==
    /\ cellCall.fn = "getRecordMetricValueFromRaw"
    /\ cellValue = NotCalled
    /\ cellValue' = Ok(getRecordMetricValueFromRaw(cellCall.raw, cellCall.metric))
    /\ UNCHANGED <<storeVars, monthVars, vizVars, exchangeRates, sortCall, heap, sortReturn, cellCall,
                   appVars>>

NextRecord == CallGetRecordMetricValueFromRaw

SpecRecord == InitRecord /\ [][NextRecord]_vars

RecordCalled == cellCall.fn = "getRecordMetricValueFromRaw" /\ cellValue # NotCalled

\* v is a / b
IsRatio(v, a, b) ==
    /\ v # Null
    /\ IsFinite(v)
    /\ NumberCmp(NumberMul(v, NumberFromInt(b)), NumberFromInt(a)) = 0

\* v is the metric C13 states for the counts of rec
IsStatedMetric(v, rec, metric) ==
    LET showed == rec.win + rec.second + rec.third
    IN  IF metric = METRIC_STARTS THEN v = NumberFromInt(rec.starts)
        ELSE IF metric = METRIC_WIN THEN v = NumberFromInt(rec.win)
        ELSE IF metric = METRIC_SECOND THEN v = NumberFromInt(rec.second)
        ELSE IF metric = METRIC_THIRD THEN v = NumberFromInt(rec.third)
        ELSE IF metric \notin Metrics \/ rec.starts = 0 THEN v = Null
        ELSE IF metric = METRIC_WIN_RATE THEN IsRatio(v, rec.win, rec.starts)
        ELSE IF metric = METRIC_PLACE_RATE THEN IsRatio(v, rec.win + rec.second, rec.starts)
        ELSE IF metric = METRIC_SHOW_RATE THEN IsRatio(v, showed, rec.starts)
        ELSE v = NumberFromInt(rec.starts - showed)

\* C13: for a record starts-win-second-third the metric is winRate =
\* win/starts, placeRate = (win+second)/starts, showRate =
\* (win+second+third)/starts, unplaced = starts-(win+second+third), and
\* starts, win, second, third are their own parsed counts (37-11-4-3 gives
\* 11/37, 15/37, 18/37, 19); with starts = 0 the four derived metrics are null
\* and each counted field is still its own parsed count; a cell that holds no
\* record, or an unknown metric, gives null.
C13_RecordMetricsAsStated ==
    RecordCalled =>
        LET rec == _parseRecordOrNull(cellCall.raw)
            v == cellValue.val
            metric == cellCall.metric.s
        IN  /\ cellValue.ok
            /\ IF rec = Null THEN v = Null ELSE IsStatedMetric(v, rec, metric)
            /\ cellCall.raw = Str(Chars_37_11_4_3) =>
                  /\ metric = METRIC_WIN_RATE => IsRatio(v, 11, 37)
                  /\ metric = METRIC_PLACE_RATE => IsRatio(v, 15, 37)
                  /\ metric = METRIC_SHOW_RATE => IsRatio(v, 18, 37)
                  /\ metric = METRIC_UNPLACED => v = NumberFromInt(19)

\* C13 for every record but one with starts = 0 asked for win, second or third
C13_HoldsButForCountsOfZeroStarts ==
    (RecordCalled /\ ~(/\ _parseRecordOrNull(cellCall.raw) # Null
                       /\ _parseRecordOrNull(cellCall.raw).starts = 0
                       /\ cellCall.metric.s \in {METRIC_WIN, METRIC_SECOND, METRIC_THIRD}))
        => C13_RecordMetricsAsStated

\* the record 0-11-4-3 asked for its wins: the parsed count is 11, the value 0
C13_ZeroStartsWitness ==
    /\ RecordCalled
    /\ cellCall.raw = Str(RecordText(0, 11, 4, 3, <<"-">>))
    /\ cellCall.metric = Str(METRIC_WIN)
    /\ _parseRecordOrNull(cellCall.raw).win = 11
    /\ cellValue = Ok(NumberFromInt(0))

----------------------------------------------------------------------------
(* The money value of one cell                                             *)

\* A money cell is written as four parts, each of which can be absent: the
\* number before 亿, the number before 万, what follows them, and the currency
\* token.  n is the number a part stands for; run is the digit run a tail
\* ends in; code is the currency a token names.
MoneyYiParts ==
    { [text |-> <<>>, n |-> Zero],
      [text |-> <<"6", YI>>, n |-> NumberFromInt(6)],
      [text |-> <<"1", ".", "5", YI>>, n |-> Rate(15, 1)] }
MoneyWanParts ==
    { [text |-> <<>>, n |-> Zero],
      [text |-> <<"6", "1", "2", "6", WAN>>, n |-> NumberFromInt(6126)],
      [text |-> <<"4", "6", "7", ".", "4", WAN>>, n |-> Rate(4674, 1)],
      [text |-> <<"3", WAN>>, n |-> NumberFromInt(3)] }
MoneyTailParts ==
    { [text |-> <<>>, n |-> Zero, run |-> Zero],
      [text |-> Chars_8000, n |-> NumberFromInt(8000), run |-> NumberFromInt(8000)],
      [text |-> <<"-", "5">>, n |-> NumberFromInt(-5), run |-> NumberFromInt(5)],
      [text |-> <<"0", ".", "5">>, n |-> Rate(5, 1), run |-> NumberFromInt(5)],
      [text |-> Chars_8000 \o <<" ", "5">>, n |-> NumberFromInt(8000),
       run |-> NumberFromInt(5)] }
MoneyTokens ==
    { [text |-> <<>>, code |-> Null],
      [text |-> <<"X", "Y", "Z">>, code |-> Null],
      [text |-> USD, code |-> Str(USD)],
      [text |-> <<"u", "s", "d", " ">>, code |-> Str(USD)],
      [text |-> GBP, code |-> Str(GBP)],
      [text |-> <<"yen">>, code |-> Str(JPY)],
      [text |-> <<"ri4", YUAN>>, code |-> Str(JPY)],
      [text |-> <<"ou1", YUAN>>, code |-> Str(EUR)],
      [text |-> <<"gang3", YUAN>>, code |-> Str(HKD)],
      [text |-> <<"ao4", YUAN>>, code |-> Str(AUD)],
      [text |-> <<"mei3", YUAN>>, code |-> Str(USD)],
      [text |-> <<YUAN>>, code |-> Str(CNY)] }

MoneyParts == MoneyYiParts \X MoneyWanParts \X MoneyTailParts \X MoneyTokens
MoneyText(p) == p[1].text \o p[2].text \o p[3].text \o p[4].text

\* the cells tried: every combination of the parts, and cells that are no text
MoneyCells ==
    {Str(MoneyText(p)) : p \in MoneyParts} \cup {Null, Undefined, Num(8000)}

InitMoney ==
    /\ StoreIdle
    /\ MonthIdle
    /\ VizIdle
    /\ exchangeRates \in {StaticRates, RefreshedRates, OverflowedRates}
    /\ sortCall = NoSortCall
    /\ heap = <<>>
    /\ sortReturn = NotCalled
    /\ cellCall \in {[fn |-> "_moneyToBaseOrNull", raw |-> raw] : raw \in MoneyCells}
    /\ cellValue = NotCalled
    /\ AppIdle

\* v = _moneyToBaseOrNull(raw) of the decorating callback
CallMoneyToBaseOrNull ==
    /\ cellCall.fn = "_moneyToBaseOrNull"
    /\ cellValue = NotCalled
    /\ cellValue' = Ok(_moneyToBaseOrNull(cellCall.raw, exchangeRates))
    /\ UNCHANGED <<storeVars, monthVars, vizVars, exchangeRates, sortCall, heap, sortReturn, cellCall,
                   appVars>>

NextMoney == CallMoneyToBaseOrNull

SpecMoney == InitMoney /\ [][NextMoney]_vars

MoneyCalled == cellCall.fn = "_moneyToBaseOrNull" /\ cellValue # NotCalled

\* the parts a text cell is written as
PartsOf(raw) == CHOOSE p \in MoneyParts : MoneyText(p) = raw.s

\* v and w are one number, or both null
SameValue(v, w) ==
    IF IsFinite(v) /\ IsFinite(w) THEN NumberCmp(v, w) = 0 ELSE v = w

\* (A x 1e8 + B x 1e4 + C) x rate, for the rate table of the state
Magnitude(a, b, c) ==
    NumberAdd(NumberAdd(NumberMul(a, Number(FALSE, BigPow10(8), <<1>>)),
                        NumberMul(b, Number(FALSE, BigPow10(4), <<1>>))), c)
Converted(a, b, c, code) ==
    IF code = Null \/ code.s \notin DOMAIN exchangeRates THEN Null
    ELSE Times(Magnitude(a, b, c), exchangeRates[code.s])

\* a row with this value comes after a row with a finite value, in both
\* directions and whichever of the two was first
InTrailingBlock(v) ==
    \A sign \in {1, -1} : \A i, j \in {0, 1} :
        i # j => /\ SortComparator([idx |-> i, v |-> v], [idx |-> j, v |-> Zero], sign) > 0
                 /\ SortComparator([idx |-> j, v |-> Zero], [idx |-> i, v |-> v], sign) < 0

\* C14 as stated: the money value of a cell is (A x 1e8 + B x 1e4 + C) x
\* rate[currency], A the number before 亿, B the number before 万, C the
\* trailing bare digit run (each 0 when absent) of the text without its
\* trailing currency token, the currency that of the trailing token, the
\* specific tokens before the bare 元; the value is null, and the row sorts in
\* the trailing block, when no currency token is recognised or the rate table
\* has no numeric rate for the currency.
C14_MoneyValueAsStated ==
    MoneyCalled =>
        /\ cellValue.ok
        /\ IF ~IsString(cellCall.raw) THEN cellValue.val = Null
           ELSE LET p == PartsOf(cellCall.raw)
                IN  SameValue(cellValue.val, Converted(p[1].n, p[2].n, p[3].run, p[4].code))
        /\ cellValue.val = Null => InTrailingBlock(cellValue.val)

\* C14 amended: the same with C the first number (an optional minus sign,
\* digits, an optional decimal part) left once the 亿 and 万 components are
\* taken out, and with the value null also when nothing is left of the text
\* once its currency token is stripped.
C14_MoneyValueFirstNumberAndNullWhenEmpty ==
    MoneyCalled =>
        /\ cellValue.ok
        /\ IF ~IsString(cellCall.raw) THEN cellValue.val = Null
           ELSE LET p == PartsOf(cellCall.raw)
                IN  IF p[1].text \o p[2].text \o p[3].text = <<>>
                    THEN cellValue.val = Null
                    ELSE SameValue(cellValue.val,
                                   Converted(p[1].n, p[2].n, p[3].n, p[4].code))
        /\ cellValue.val = Null => InTrailingBlock(cellValue.val)

\* 1.5亿6126万8000港元 under the static table: 211268000 x 20.02, the rate of
\* HKD and not that of the bare 元
C14_Witness ==
    /\ MoneyCalled
    /\ exchangeRates = StaticRates
    /\ cellCall.raw = Str(<<"1", ".", "5", YI, "6", "1", "2", "6", WAN>> \o Chars_8000
                            \o <<"gang3", YUAN>>)
    /\ cellValue.ok
    /\ cellValue.val # Null
    /\ NumberCmp(cellValue.val,
                 NumberMul(NumberFromInt(211268000), Rate(2002, 2))) = 0

----------------------------------------------------------------------------
(* 3万USD and 6000万円 under the static rate table                          *)

\* the rows whose prize is 3万USD and 6000万円
RowOf3WanUSD == Ref(1)
RowOf6000WanYen == Ref(2)

\* a call that sorts an array holding both rows by the prize, descending,
\* under a table with JPY: 1 and USD: 155.8
PrizeDescendingStep ==
    /\ SortStep
    /\ exchangeRates[JPY] = Rate(1, 0)
    /\ exchangeRates[USD] = Rate(1558, 1)
    /\ sortCall.year = 2025
    /\ sortCall.sortState = Directive(COL_PRIZE, DIRECTION_DESC)
    /\ \E j, k \in 1..Len(InputElems) :
          InputElems[j] = RowOf3WanUSD /\ InputElems[k] = RowOf6000WanYen

\* every occurrence of the row upper is above every occurrence of the row lower
Above(elems, upper, lower) ==
    \A j, k \in 1..Len(elems) : (elems[j] = upper /\ elems[k] = lower) => j < k

\* C15 as stated: with the rate table {JPY: 1, USD: 155.8} a descending sort by
\* the money column places the row "3万USD" strictly above the row "6000万円",
\* whatever their original order.
C15_ThreeWanUSDAbove6000WanYen ==
    [][PrizeDescendingStep => Above(ReturnedElems', RowOf3WanUSD, RowOf6000WanYen)]_vars

\* C15 amended: the descending sort places the row "6000万円" (60000000)
\* strictly above the row "3万USD" (30000 x 155.8 = 4674000), whatever their
\* original order.
C15_6000WanYenAboveThreeWanUSD ==
    [][PrizeDescendingStep =>
          /\ Above(ReturnedElems', RowOf6000WanYen, RowOf3WanUSD)
          /\ \E j, k \in 1..Len(ReturnedElems') :
                ReturnedElems'[j] = RowOf6000WanYen /\ ReturnedElems'[k] = RowOf3WanUSD
          /\ NumberCmp(_moneyToBaseOrNull(Str(Chars_3_wan_USD), exchangeRates),
                       NumberFromInt(4674000)) = 0
          /\ NumberCmp(_moneyToBaseOrNull(Str(Chars_6000_wan_yen), exchangeRates),
                       NumberFromInt(60000000)) = 0]_vars

\* the USD row first in the input, the yen row first in the result
C15_Witness ==
    /\ sortReturn # NotCalled
    /\ sortReturn.ok
    /\ exchangeRates = StaticRates
    /\ sortCall.year = 2025
    /\ sortCall.sortState = Directive(COL_PRIZE, DIRECTION_DESC)
    /\ IsArray(heap, sortCall.data)
    /\ InputElems = <<RowOf3WanUSD, RowOf6000WanYen>>
    /\ ReturnedElems = <<RowOf6000WanYen, RowOf3WanUSD>>

----------------------------------------------------------------------------
(* app.js: the page of one year's table                                    *)
(* The page holds the selected year, the loaded array, the controller's    *)
(* sort state and what the table wrapper displays.  A sorted array lives   *)
(* only until it is rendered, so the heap keeps the rows and the loaded    *)
(* arrays and the table keeps the rows in the order displayed.             *)

DEFAULT_YEAR == 2025

\* The years CONFIG.csvHeaders names, whose sidebar buttons are enabled: 2025 as
\* config.js stands, and 2026 once its header list is added.
CsvHeaderYears == {2025, 2026}

\* !!(cfg && cfg[colKey])
isColumnSortable(year, colKey) == colKey \in DOMAIN _getSortableConfigForYear(year)

\* loadData(year) when it resolves: the array of the year, the same at every call
loadData(year) == Ref(Len(SortRowObjects) + 1 + (year - DEFAULT_YEAR))

\* the elements of sortController.applySort(data)
applySort(h, rates, data, year, st) ==
    LET Elems(r) == r.heap[r.ref.id].elems
    IN  Elems(sortDataForYear(h, rates, data, year, st))

\* UIRenderer.renderTable(data, year, sortState): what the wrapper displays after
renderTable(elems, year, st) ==
    IF Len(elems) = 0 THEN [kind |-> "empty"]
    ELSE IF year \notin CsvHeaderYears THEN [kind |-> "error"]
    ELSE [kind |-> "rows", rows |-> elems, year |-> year, sortState |-> st]

\* UIRenderer.showError
showError == [kind |-> "error"]

\* the callback without its re-sort: the hint alone is updated
onUpdated_HintOnly(shown, h, rates, data, year, st) == shown

\* the callback onUpdated of init: what the wrapper displays after it
onUpdated(shown, h, rates, data, year, st) ==
    IF data # Null /\ st # Null /\ Prop(st, "key") = Str(COL_PRIZE)
    THEN renderTable(applySort(h, rates, data, year, st), year, st)
    ELSE shown

\* a click that sorts ascending whatever the state was
ClickedSortState_AlwaysAscending(st, key) == Directive(key, DIRECTION_ASC)

\* the sort state a click on the header of key leaves
ClickedSortState(st, key) ==
    IF st = Null \/ Prop(st, "key") # Str(key) THEN Directive(key, DIRECTION_ASC)
    ELSE Directive(key, IF Prop(st, "direction") = Str(DIRECTION_ASC)
                        THEN DIRECTION_DESC ELSE DIRECTION_ASC)

----------------------------------------------------------------------------
(* The page: loads, clicks, year switches and the rate refresh             *)

\* the arrays data/2025.json can hold
Data2025 == {<<Ref(4), Ref(1), Ref(2)>>, <<Ref(1), Ref(4)>>, <<>>}
Data2026 == <<Ref(3), Ref(5)>>

\* the tables a successful refresh can leave, and null for a failed one
RefreshOutcomes == {Null, RefreshedRates, OverflowedRates}

\* the options of the record sort dialog that are tried
DialogMetrics == {METRIC_WIN_RATE, METRIC_UNPLACED}

MaxSwitches == 2

otherVars == <<monthVars, vizVars, sortCall, sortReturn, cellVars, storeVars>>

\* init(): the rate refresh is started, then loadAndRender(currentYear)
InitApp ==
    /\ StoreIdle
    /\ MonthIdle
    /\ VizIdle
    /\ CellIdle
    /\ sortCall = NoSortCall
    /\ sortReturn = NotCalled
    /\ exchangeRates = StaticRates
    /\ \E d \in Data2025 :
          heap = SortRowObjects \o <<ArrayObject(d), ArrayObject(Data2026)>>
    /\ appYear = DEFAULT_YEAR
    /\ currentData = Null
    /\ appSortState = Null
    /\ recordModal = FALSE
    /\ table = [kind |-> "none"]
    /\ loads = {[id |-> 0, year |-> DEFAULT_YEAR]}
    /\ refresh = "pending"
    /\ switched = 0
    /\ lastEvent = [kind |-> "none"]

\* loadAndRender from the resolution of loadData on
LoadAndRenderResolved ==
    \E l \in loads :
        /\ loads' = loads \ {l}
        /\ currentData' = loadData(l.year)
        /\ table' = renderTable(applySort(heap, exchangeRates, loadData(l.year),
                                          appYear, appSortState),
                                l.year, appSortState)
        /\ lastEvent' = [kind |-> "loaded", year |-> l.year]
        /\ UNCHANGED <<otherVars, exchangeRates, heap, appYear, appSortState,
                       recordModal, refresh, switched>>

\* loadAndRender when loadData rejects
LoadAndRenderRejected ==
    \E l \in loads :
        /\ loads' = loads \ {l}
        /\ table' = showError
        /\ lastEvent' = [kind |-> "load failed", year |-> l.year]
        /\ UNCHANGED <<otherVars, exchangeRates, heap, appYear, currentData,
                       appSortState, recordModal, refresh, switched>>

\* a click on a year of the sidebar
SwitchYear ==
    \E year \in CsvHeaderYears :
        /\ year # appYear
        /\ switched < MaxSwitches
        /\ switched' = switched + 1
        /\ appYear' = year
        /\ currentData' = Null
        /\ appSortState' = Null
        /\ loads' = loads \cup {[id |-> switched + 1, year |-> year]}
        /\ lastEvent' = [kind |-> "switchYear", year |-> year]
        /\ UNCHANGED <<otherVars, exchangeRates, heap, recordModal, table, refresh>>

\* a click on a sort button of the displayed header
ClickSortHeader ==
    /\ table.kind = "rows"
    /\ \E key \in DOMAIN _getSortableConfigForYear(table.year) :
          /\ lastEvent' = [kind |-> "click", key |-> key]
          /\ IF ~isColumnSortable(appYear, key) \/ currentData = Null
             THEN UNCHANGED <<appSortState, table, recordModal>>
             ELSE IF getColumnSortType(appYear, key) = Str(TYPE_RECORD)
             THEN recordModal' = TRUE /\ UNCHANGED <<appSortState, table>>
             ELSE /\ appSortState' = ClickedSortState(appSortState, key)
                  /\ table' = renderTable(applySort(heap, exchangeRates, currentData, appYear,
                                                    ClickedSortState(appSortState, key)),
                                          appYear, ClickedSortState(appSortState, key))
                  /\ UNCHANGED recordModal
    /\ UNCHANGED <<otherVars, exchangeRates, heap, appYear, currentData, loads,
                   refresh, switched>>

\* a click on an option of the record sort dialog: without data the dialog
\* drops it, with data it closes after onSelected has called setRecordSort
SelectRecordSort ==
    /\ recordModal
    /\ \E metric \in DialogMetrics, direction \in Directions :
          IF currentData = Null
          THEN /\ lastEvent' = [kind |-> "option dropped"]
               /\ UNCHANGED <<appSortState, table, recordModal>>
          ELSE /\ lastEvent' = [kind |-> "setRecordSort", metric |-> metric,
                                direction |-> direction]
               /\ appSortState' = RecordDirective(direction, metric)
               /\ table' = renderTable(applySort(heap, exchangeRates, currentData, appYear,
                                                 RecordDirective(direction, metric)),
                                       appYear, RecordDirective(direction, metric))
               /\ recordModal' = FALSE
    /\ UNCHANGED <<otherVars, exchangeRates, heap, appYear, currentData, loads,
                   refresh, switched>>

\* the dialog is closed by its button, its backdrop or Escape
CloseRecordSortModal ==
    /\ recordModal
    /\ recordModal' = FALSE
    /\ lastEvent' = [kind |-> "dialog closed"]
    /\ UNCHANGED <<otherVars, exchangeRates, heap, appYear, currentData, appSortState,
                   table, loads, refresh, switched>>

\* the then-callback of refreshExchangeRatesIfNeeded in the rate controller
RefreshResolved ==
    /\ refresh = "pending"
    /\ refresh' = "done"
    /\ lastEvent' = [kind |-> "rates refreshed"]
    /\ \E latest \in RefreshOutcomes :
          /\ exchangeRates' = IF latest = Null THEN exchangeRates ELSE latest
          /\ table' = onUpdated(table, heap,
                                IF latest = Null THEN exchangeRates ELSE latest,
                                currentData, appYear, appSortState)
    /\ UNCHANGED <<otherVars, heap, appYear, currentData, appSortState, recordModal,
                   loads, switched>>

NextApp ==
    \/ LoadAndRenderResolved
    \/ LoadAndRenderRejected
    \/ SwitchYear
    \/ ClickSortHeader
    \/ SelectRecordSort
    \/ CloseRecordSortModal
    \/ RefreshResolved

SpecApp == InitApp /\ [][NextApp]_vars

\* data is loaded and the table is sorted by the money column
SortedByMoney(data, st) ==
    data # Null /\ st # Null /\ Prop(st, "key") = Str(COL_PRIZE)

\* what the wrapper displays when the rows of data are rendered in the order
\* the money sort gives them under the table rates
MoneyOrderUnder(rates, data, year, st) ==
    renderTable(applySort(heap, rates, data, year, st), year, st)

RefreshStep == refresh = "pending" /\ refresh' = "done"

\* C16: money sorting uses the rate table as it is at the time of the call, and
\* whenever a rate refresh completes while data is loaded and the table is
\* sorted by the money column the table is re-rendered with the rows sorted
\* under the rate table in effect after the refresh: the displayed order never
\* stays on the rates of before the refresh.
C16_MoneyOrderFollowsLiveRates ==
    [][   /\ (RefreshStep /\ SortedByMoney(currentData, appSortState)) =>
                table' = MoneyOrderUnder(exchangeRates', currentData, appYear, appSortState)
          /\ (~RefreshStep /\ table' # table /\ SortedByMoney(currentData', appSortState')
                /\ table'.kind = "rows") =>
                table'.rows = applySort(heap, exchangeRates, currentData', appYear',
                                        appSortState')
          /\ (SortedByMoney(currentData', appSortState') /\ table'.kind = "rows") =>
                table'.rows = applySort(heap, exchangeRates', currentData', appYear',
                                        appSortState')]_vars

\* the table sorted by the money column, descending, under the static table:
\* 3万USD and 467.4万日元 tie at 4674000 and keep their order; the refresh has
\* left 1 USD = 1 / 0.0065 JPY and the table shows 467.4万日元 above 3万USD
C16_Witness ==
    /\ refresh = "done"
    /\ exchangeRates = RefreshedRates
    /\ currentData # Null
    /\ heap[currentData.id].elems = <<Ref(1), Ref(4)>>
    /\ appSortState = Directive(COL_PRIZE, DIRECTION_DESC)
    /\ table.kind = "rows"
    /\ table.rows = <<Ref(4), Ref(1)>>
    /\ applySort(heap, StaticRates, currentData, appYear, appSortState) = <<Ref(1), Ref(4)>>

\* what the page handled in the step, and the key and direction of a state
Handled(kind) == lastEvent'.kind = kind
SortsOnClick(year, key, data) ==
    /\ isColumnSortable(year, key)
    /\ getColumnSortType(year, key) # Str(TYPE_RECORD)
    /\ data # Null
KeyOf(st) == Prop(st, "key").s
DirectionOf(st) == Prop(st, "direction").s
Toggled(direction) == IF direction = DIRECTION_ASC THEN DIRECTION_DESC ELSE DIRECTION_ASC

\* C25: the sort state follows this machine under any sequence of events: a
\* click on a sortable non-record header with data loaded sets the state to
\* {key, asc} when no sort is active or the current key differs, and toggles
\* the direction when the key is the same; a click on a non-sortable column,
\* on a record-type column (which only opens the metric dialog) or while no
\* data is loaded leaves the state unchanged; choosing a record metric sets
\* {key: 战绩, metric, direction}; switching to another year resets the state
\* to null; nothing else changes it.
C25_SortStateFollowsItsMachine ==
    [][   /\ (Handled("click") /\ SortsOnClick(appYear, lastEvent'.key, currentData)) =>
                /\ appSortState' # Null
                /\ DOMAIN appSortState'.props = {"key", "direction"}
                /\ KeyOf(appSortState') = lastEvent'.key
                /\ DirectionOf(appSortState') =
                      IF appSortState = Null \/ KeyOf(appSortState) # lastEvent'.key
                      THEN DIRECTION_ASC
                      ELSE Toggled(DirectionOf(appSortState))
          /\ (Handled("click") /\ ~SortsOnClick(appYear, lastEvent'.key, currentData)) =>
                appSortState' = appSortState
          /\ (Handled("click") /\ isColumnSortable(appYear, lastEvent'.key)
                /\ getColumnSortType(appYear, lastEvent'.key) = Str(TYPE_RECORD)
                /\ currentData # Null) => recordModal'
          /\ Handled("setRecordSort") =>
                appSortState' = Object(("key" :> Str(COL_RECORD))
                                         @@ ("metric" :> Str(lastEvent'.metric))
                                         @@ ("direction" :> Str(lastEvent'.direction)))
          /\ Handled("switchYear") => (appYear' # appYear /\ appSortState' = Null)
          /\ appYear' # appYear => Handled("switchYear")
          /\ ~(Handled("click") \/ Handled("setRecordSort") \/ Handled("switchYear")) =>
                appSortState' = appSortState]_vars

\* the header of 出生 was clicked twice with data loaded: ascending after the
\* first click, descending after the second
C25_Witness ==
    /\ lastEvent = [kind |-> "click", key |-> COL_BIRTH]
    /\ currentData # Null
    /\ appSortState = Directive(COL_BIRTH, DIRECTION_DESC)
    /\ table.kind = "rows"
    /\ table.sortState = appSortState

\* a metric of the dialog was chosen
C25_RecordWitness ==
    /\ lastEvent = [kind |-> "setRecordSort", metric |-> METRIC_UNPLACED,
                    direction |-> DIRECTION_DESC]
    /\ ~recordModal
    /\ appSortState = RecordDirective(DIRECTION_DESC, METRIC_UNPLACED)

\* the year was switched while the table of 2025 was sorted: the state is
\* null, and a click on the header still displayed is without effect
C25_ResetWitness ==
    /\ appYear = 2026
    /\ table.kind = "rows"
    /\ table.year = 2025
    /\ table.sortState # Null
    /\ appSortState = Null
    /\ lastEvent = [kind |-> "click", key |-> COL_PRIZE]

\* a click on a sortable header of the selected year while its data is not
\* loaded: the year was switched away and back, the table of before is
\* still displayed, and the state stays null
C25_NoDataWitness ==
    /\ appYear = 2025
    /\ currentData = Null
    /\ switched = 2
    /\ table.kind = "rows"
    /\ appSortState = Null
    /\ lastEvent = [kind |-> "click", key |-> COL_AGE]

----------------------------------------------------------------------------
(* The chart panels of a year: the buckets aggregateForYear gives           *)
(* 骨折 "gu3 zhe2"; 心脏 "xin1 zang4"; （L） a listed race, （OP） an open race  *)

Chars_3_sui == <<"3", "sui4">>
Chars_win_G2_and_G1 == <<"X">> \o Paren(<<"G", "2">>) \o <<"Y">> \o Paren(<<"J", "p", "n", "1">>)
Chars_win_G3 == <<"X">> \o Paren(<<"G", "3">>)
Chars_win_listed == <<"X">> \o Paren(<<"L">>)
Chars_win_open == <<"X">> \o Paren(<<"O", "P">>)
CAUSE_HEART == <<"xin1", "zang4">>
CAUSE_FRACTURE == <<"gu3", "zhe2">>
\* 原因/心脏| 原因/心脏 : the same tag twice
Chars_cause_heart_twice ==
    PREFIX_CAUSE \o CAUSE_HEART \o <<"|", " ">> \o PREFIX_CAUSE \o CAUSE_HEART \o <<" ">>
\* 原因/骨折|原因/心脏
Chars_cause_fracture_heart ==
    PREFIX_CAUSE \o CAUSE_FRACTURE \o <<"|">> \o PREFIX_CAUSE \o CAUSE_HEART
\* 原因/心脏|原因/ 心脏 : the second tag has a space after the prefix
Chars_cause_heart_spaced ==
    PREFIX_CAUSE \o CAUSE_HEART \o <<"|">> \o PREFIX_CAUSE \o <<" ">> \o CAUSE_HEART

\* 殒命赛场/障碍|殒命赛场/训练|殒命赛场/障碍|殒命赛场/赛前 : 训练 "xun4 lian4" is no
\* venue of the three
VENUE_TRAINING == <<"xun4", "lian4">>
Chars_venues_jump_training_jump_pre ==
    PREFIX_RACE_DEATH \o VENUE_JUMP \o <<"|">> \o PREFIX_RACE_DEATH \o VENUE_TRAINING
      \o <<"|">> \o PREFIX_RACE_DEATH \o VENUE_JUMP \o <<"|">> \o PREFIX_RACE_DEATH \o VENUE_PRE_RACE

\* rows of a dataset: ages with a year between them, no age, each tier of
\* wins, causes repeated, several, none, venues repeated and unknown
PanelRowPool ==
    { GoodRow,
      AggRow5(Str(Chars_2025_04_02), Str(Chars_3_sui), Str(Chars_win_G2_and_G1),
              Str(Chars_cause_heart_twice), Str(<<"B">>)),
      AggRow5(Str(Chars_about_2025), Str(Chars_unknown_age), Str(Chars_win_listed),
              Str(Chars_cause_fracture_heart), Str(<<"C">>)),
      AggRow5(Str(<<>>), Str(<<" ">>), Str(<<>>), Str(<<" ">>), Str(<<>>)),
      AggRow5(Str(Chars_2025_03_15 \o RANGE_TO \o Chars_2025_04_02), Str(Chars_3_sui),
              Str(Chars_win_G3), Str(PREFIX_CAUSE \o CAUSE_FRACTURE), Str(<<"D">>)),
      AggRow5(Str(Chars_2025_01_05), Str(Chars_5_sui), Str(Chars_win_open),
              Str(Chars_cause_heart_spaced), Str(<<"E">>)),
      AggRow5(Str(Chars_2025_01_05), Str(Chars_5_sui), Str(Chars_win_G1),
              Str(Chars_venues_jump_training_jump_pre), Str(<<"F">>)) }
MaxPanelRows == 3

PanelChoices == { Panels2025, <<"mainWins", "cause">>, <<"age", "month">> }

InitPanels ==
    /\ StoreIdle
    /\ MonthIdle
    /\ SortIdle
    /\ yearRows \in SeqsUpTo(PanelRowPool, MaxPanelRows)
    /\ currentYear = 2025
    /\ columnsByYear = (2025 :> ColumnMap2025)
    /\ panelsByYear \in {(2025 :> l) : l \in PanelChoices}
    /\ timeZone = "fixed"
    /\ timeStats = NotCalled
    /\ aggregated = NotCalled
    /\ render = RenderIdle

NextPanels == CallAggregateForYear

SpecPanels == InitPanels /\ [][NextPanels]_vars

\* the call returned the panels' buckets
Aggregated == aggregated # NotCalled /\ aggregated.ok
RowIndexes == 1..Len(yearRows)

\* the age a row's text parses to, Null when it is blank or unparseable
AgeOfRow(i) == parseAge(Get(yearRows[i], COL_AGE)).val
ParsedAges == {AgeOfRow(i).n : i \in {j \in RowIndexes : AgeOfRow(j) # Null}}
SmallestAge == CHOOSE a \in ParsedAges : \A b \in ParsedAges : a <= b
LargestAge == CHOOSE a \in ParsedAges : \A b \in ParsedAges : a >= b
RowsOfAge(a) == {i \in RowIndexes : AgeOfRow(i) # Null /\ AgeOfRow(i).n = a}
RowsWithoutAge == {i \in RowIndexes : AgeOfRow(i) = Null}

\* C17: when the age panel is requested, the age buckets are one for every
\* integer age from the smallest to the largest parsed age, ascending, each
\* with the number of rows of that age (0 for an age between them no row
\* has), then the bucket 未知, always there, with the number of rows whose age
\* is blank or unparseable; when no age parses, 未知 is the only bucket.
C17_AgeBucketsSpanMinToMaxThenUnknown ==
    (Aggregated /\ Requested(YearPanels, "age")) =>
        LET cats == aggregated.val.ageCats
            vals == aggregated.val.ageVals
            span == IF ParsedAges = {} THEN 0 ELSE LargestAge - SmallestAge + 1
        IN  /\ Len(cats) = span + 1
            /\ Len(vals) = span + 1
            /\ \A k \in 1..span :
                  /\ cats[k] = NumberToString(SmallestAge + k - 1)
                  /\ vals[k] = Cardinality(RowsOfAge(SmallestAge + k - 1))
            /\ cats[span + 1] = UNKNOWN_AGE_BUCKET
            /\ vals[span + 1] = Cardinality(RowsWithoutAge)

\* rows of 3岁, 5岁 and 3岁, every age parsing: the buckets are 3, 4, 5 and 未知
\* with the values 2, 0, 1 and 0
C17_Witness ==
    /\ Aggregated /\ Requested(YearPanels, "age")
    /\ Len(yearRows) = 3
    /\ aggregated.val.ageCats = <<<<"3">>, <<"4">>, <<"5">>, UNKNOWN_AGE_BUCKET>>
    /\ aggregated.val.ageVals = <<2, 0, 1, 0>>

\* no age parses: 未知 alone, counting both rows
C17_NoAgeWitness ==
    /\ Aggregated /\ Requested(YearPanels, "age")
    /\ Len(yearRows) = 2
    /\ aggregated.val.ageCats = <<UNKNOWN_AGE_BUCKET>>
    /\ aggregated.val.ageVals = <<2>>

\* the month bucket a row's death text is classified into
MonthOfRow(i) == getDeathMonthBucket(Get(yearRows[i], COL_DEATH)).val
RowsOfMonth(label) == {i \in RowIndexes : MonthOfRow(i) = label}

\* C18: when the month panel is requested, monthCats is 1月 to 12月 in that
\* order, followed by the unknown bucket if and only if at least one row is
\* classified unknown, and monthVals holds at each position the number of
\* rows classified into that bucket (0 for a month no row has).
C18_MonthBucketsTwelveThenUnknownIfAny ==
    (Aggregated /\ Requested(YearPanels, "month")) =>
        LET cats == aggregated.val.monthCats
            vals == aggregated.val.monthVals
            unknown == RowsOfMonth(UNKNOWN_MONTH_BUCKET) # {}
        IN  /\ Len(cats) = IF unknown THEN 13 ELSE 12
            /\ Len(vals) = Len(cats)
            /\ \A m \in 1..12 : cats[m] = Append(NumberToString(m), "yue4")
            /\ unknown => cats[13] = UNKNOWN_MONTH_BUCKET
            /\ \A k \in 1..Len(cats) : vals[k] = Cardinality(RowsOfMonth(cats[k]))

\* two rows of March and a row whose death spans March and April: 2 under
\* 3月, 0 under 4月, and a thirteenth bucket, the unknown one, with 1
C18_Witness ==
    /\ Aggregated /\ Requested(YearPanels, "month")
    /\ Len(yearRows) = 3
    /\ Len(aggregated.val.monthCats) = 13
    /\ aggregated.val.monthVals[3] = 2
    /\ aggregated.val.monthVals[4] = 0
    /\ aggregated.val.monthVals[13] = 1
    /\ \E i \in RowIndexes :
          Get(yearRows[i], COL_DEATH) = Str(Chars_2025_03_15 \o RANGE_TO \o Chars_2025_04_02)

\* rows of January, March and April: twelve buckets, no unknown one
C18_NoUnknownWitness ==
    /\ Aggregated /\ Requested(YearPanels, "month")
    /\ Len(yearRows) = 3
    /\ Len(aggregated.val.monthCats) = 12
    /\ aggregated.val.monthVals = <<1, 0, 1, 1, 0, 0, 0, 0, 0, 0, 0, 0>>

\* the grade markers of the two tiers, and the tier of a row's wins text
G1TierMarkers == {<<"G", "1">>, <<"J", "p", "n", "1">>, <<"J", "G", "1">>, <<"di4", "fang1", "G", "1">>}
G2G3TierMarkers ==
    { g \o <<n>> : g \in {<<"G">>, <<"J", "p", "n">>, <<"J", "G">>, <<"di4", "fang1", "G">>},
                   n \in {"2", "3"} }
      \cup { <<"B", "G", n>> : n \in {"1", "2", "3"} }
HoldsMarker(i, markers) ==
    \E m \in markers : Includes(Get(yearRows[i], COL_MAIN_WINS).s, <<"(">> \o m \o <<")">>)
TierOfRow(i) ==
    IF HoldsMarker(i, G1TierMarkers) THEN TIER_G1
    ELSE IF HoldsMarker(i, G2G3TierMarkers) THEN TIER_G2G3
    ELSE TIER_UNGRADED
RowsOfTier(tier) == {i \in RowIndexes : TierOfRow(i) = tier}

\* C19: each row is counted in exactly one tier of main wins: G1 when its
\* text holds a parenthesized G1-tier marker, whatever else it holds, else
\* G2/G3 when it holds a G2/G3-tier marker, else 无分级胜鞍 (a listed or open
\* race marker alone grades nothing); the panel is always the three buckets
\* G1, G2/G3, 无分级胜鞍 in that order, with 0 for a tier without a row.
C19_MainWinsThreeTiersG1First ==
    (Aggregated /\ Requested(YearPanels, "mainWins")) =>
        LET data == aggregated.val.mainData
        IN  /\ Len(data) = 3
            /\ data[1] = [name |-> <<"G", "1">>, value |-> Cardinality(RowsOfTier(TIER_G1))]
            /\ data[2] = [name |-> <<"G", "2", "/", "G", "3">>,
                          value |-> Cardinality(RowsOfTier(TIER_G2G3))]
            /\ data[3] = [name |-> <<"wu2", "fen1", "ji2", "sheng4", "an1">>,
                          value |-> Cardinality(RowsOfTier(TIER_UNGRADED))]
            /\ data[1].value + data[2].value + data[3].value = Len(yearRows)

\* a row with a （G2） and a （Jpn1） marker and a row with a （L） marker only:
\* one under G1, none under G2/G3, one under 无分级胜鞍
C19_Witness ==
    /\ Aggregated /\ Requested(YearPanels, "mainWins")
    /\ Len(yearRows) = 2
    /\ yearRows[1][COL_MAIN_WINS] = Str(Chars_win_G2_and_G1)
    /\ yearRows[2][COL_MAIN_WINS] = Str(Chars_win_listed)
    /\ aggregated.val.mainData[1].value = 1
    /\ aggregated.val.mainData[2].value = 0
    /\ aggregated.val.mainData[3].value = 1

\* the distinct cause tags a row carries: its text split on |, the parts
\* trimmed, the empty ones dropped, those with the prefix 原因/ kept, the
\* prefix stripped
CauseTagsOfRow(i) ==
    LET kept == PrefixedLoop(_splitStatsTags(Get(yearRows[i], COL_CAUSE_STATS)).val,
                             <<"yuan2", "yin1", "/">>)
    IN  {kept[k] : k \in 1..Len(kept)}
RowsWithCauseTag(tag) == {i \in RowIndexes : tag \in CauseTagsOfRow(i)}

\* C20: for the cause panel, each row adds exactly 1 to the bucket of every
\* distinct cause tag it carries, however many times the tag is repeated in
\* the row: a row with k distinct tags contributes to k buckets, a row with
\* none to no bucket, so that there is one bucket per tag some row carries,
\* with the number of rows carrying it; the buckets are listed in
\* non-increasing order of count.
C20_CauseBucketsCountRowsPerDistinctTag ==
    (Aggregated /\ Requested(YearPanels, "cause")) =>
        LET data == aggregated.val.causeData
        IN  /\ {data[k].name : k \in 1..Len(data)} = UNION {CauseTagsOfRow(i) : i \in RowIndexes}
            /\ \A k, l \in 1..Len(data) : data[k].name = data[l].name => k = l
            /\ \A k \in 1..Len(data) :
                  data[k].value = Cardinality(RowsWithCauseTag(data[k].name))
            /\ \A k \in 1..(Len(data) - 1) : data[k].value >= data[k + 1].value

\* a row's tags, the prefix stripped, are their own bucket names: none is
\* empty, none has a space at either end
TagsNeedNoTrim == \A i \in RowIndexes : \A tag \in CauseTagsOfRow(i) : tag # <<>> /\ Trim(tag) = tag

\* what holds of the cause buckets when the tags need no trimming
C20_HoldsWhenTagsNeedNoTrim ==
    TagsNeedNoTrim => C20_CauseBucketsCountRowsPerDistinctTag

\* one row with 原因/心脏|原因/ 心脏: the bucket 心脏 has 2, from one row
C20_SpacedTagWitness ==
    /\ Aggregated /\ Requested(YearPanels, "cause")
    /\ Len(yearRows) = 1
    /\ Get(yearRows[1], COL_CAUSE_STATS) = Str(Chars_cause_heart_spaced)
    /\ aggregated.val.causeData = <<[name |-> CAUSE_HEART, value |-> 2]>>

\* a row with 原因/心脏 twice and a row with 原因/骨折|原因/心脏: 心脏 has 2, one
\* from each row, and comes before 骨折, which has 1
C20_RepeatedTagWitness ==
    /\ Aggregated /\ Requested(YearPanels, "cause")
    /\ Len(yearRows) = 2
    /\ Get(yearRows[1], COL_CAUSE_STATS) = Str(Chars_cause_fracture_heart)
    /\ Get(yearRows[2], COL_CAUSE_STATS) = Str(Chars_cause_heart_twice)
    /\ aggregated.val.causeData =
          <<[name |-> CAUSE_HEART, value |-> 2], [name |-> CAUSE_FRACTURE, value |-> 1]>>

\* the venues of the tags 殒命赛场/<venue> a row carries
VenuesOfRow(i) ==
    LET kept == PrefixedLoop(_splitStatsTags(Get(yearRows[i], COL_CAUSE_STATS)).val,
                             <<"yun3", "ming4", "sai4", "chang3", "/">>)
    IN  {kept[k] : k \in 1..Len(kept)}
RowsOfVenue(venue) == {i \in RowIndexes : venue \in VenuesOfRow(i)}

RECURSIVE SumOfValues(_)
SumOfValues(vals) == IF vals = <<>> THEN 0 ELSE Head(vals) + SumOfValues(Tail(vals))

\* C29: whenever aggregateForYear succeeds, the counts of each requested
\* single-label panel sum to the number of rows: the month values, the age
\* values and the three main-wins values each add up to |rows|, every row
\* being in exactly one bucket of each, the unknown buckets included.
C29_SingleLabelPanelsSumToRows ==
    Aggregated =>
        /\ Requested(YearPanels, "month") =>
              SumOfValues(aggregated.val.monthVals) = Len(yearRows)
        /\ Requested(YearPanels, "age") =>
              SumOfValues(aggregated.val.ageVals) = Len(yearRows)
        /\ Requested(YearPanels, "mainWins") =>
              SumOfValues([k \in 1..Len(aggregated.val.mainData) |->
                              aggregated.val.mainData[k].value]) = Len(yearRows)

\* three rows, one of them with a death spanning two months and one with no
\* age: the unknown month and the unknown age each count a row, and the
\* three panels each add up to 3
C29_Witness ==
    /\ Aggregated
    /\ Requested(YearPanels, "month")
    /\ Requested(YearPanels, "age")
    /\ Requested(YearPanels, "mainWins")
    /\ Len(yearRows) = 3
    /\ RowsOfMonth(UNKNOWN_MONTH_BUCKET) # {}
    /\ RowsWithoutAge # {}
    /\ Len(aggregated.val.monthVals) = 13
    /\ aggregated.val.monthVals[13] >= 1
    /\ aggregated.val.ageVals[Len(aggregated.val.ageVals)] >= 1
    /\ SumOfValues(aggregated.val.monthVals) = 3
    /\ SumOfValues(aggregated.val.ageVals) = 3

----------------------------------------------------------------------------
(* The free-form panels: gender, coat and breed, for a year whose columns   *)
(* map them.  牡 "mu3", 牝 "pin4", 栗毛 "li4 mao2", 鹿毛 "lu4 mao2"            *)

FreeRow(gender, coat, breed) ==
    (COL_GENDER :> Str(gender)) @@ (COL_COAT :> Str(coat)) @@ (COL_BREED :> Str(breed))

\* values, the same values with spaces around them, blank and whitespace-only
\* cells, and a cell holding 未知 itself
FreeRowPool ==
    { FreeRow(<<"mu3">>, <<"li4", "mao2">>, <<"T", "B">>),
      FreeRow(<<" ", "mu3", " ">>, <<>>, <<"T", "B">>),
      FreeRow(<<"pin4">>, <<" ">>, <<" ", " ">>),
      FreeRow(<<>>, <<"wei4", "zhi1">>, <<"A", "A">>),
      FreeRow(<<"pin4">>, <<"lu4", "mao2", " ">>, <<" ", "A", "A">>) }
MaxFreeRows == 3

FreeColumnMap ==
    (COL_GENDER :> Str(COL_GENDER)) @@ (COL_COAT :> Str(COL_COAT))
      @@ (COL_BREED :> Str(COL_BREED))

FreePanelChoices == { <<"gender", "coat", "breed">>, <<"coat">>, <<"breed", "gender">> }

InitFree ==
    /\ StoreIdle
    /\ MonthIdle
    /\ SortIdle
    /\ yearRows \in SeqsUpTo(FreeRowPool, MaxFreeRows)
    /\ currentYear = 2026
    /\ columnsByYear = (2026 :> FreeColumnMap)
    /\ panelsByYear \in {(2026 :> l) : l \in FreePanelChoices}
    /\ timeZone = "fixed"
    /\ timeStats = NotCalled
    /\ aggregated = NotCalled
    /\ render = RenderIdle

NextFree == CallAggregateForYear

SpecFree == InitFree /\ [][NextFree]_vars

\* the label a cell is counted under: its value without the whitespace around
\* it, 未知 when nothing is left
LabelOfCell(i, col) ==
    LET value == Trim(Get(yearRows[i], col).s)
    IN  IF value = <<>> THEN <<"wei4", "zhi1">> ELSE value
RowsOfLabel(col, label) == {i \in RowIndexes : LabelOfCell(i, col) = label}

\* the buckets data are one per label of the column col, each with the number
\* of rows of the label, the larger counts first
FreeFormBuckets(data, col) ==
    /\ {data[k].name : k \in 1..Len(data)} = {LabelOfCell(i, col) : i \in RowIndexes}
    /\ \A k, l \in 1..Len(data) : data[k].name = data[l].name => k = l
    /\ \A k \in 1..Len(data) : data[k].value = Cardinality(RowsOfLabel(col, data[k].name))
    /\ \A k \in 1..(Len(data) - 1) : data[k].value >= data[k + 1].value

\* C22: for the gender, coat and breed panels there is one bucket per
\* distinct trimmed cell value (values differing only in the whitespace
\* around them share a bucket), every blank or whitespace-only value is
\* counted under 未知, and the buckets are in non-increasing order of count.
C22_FreeFormBucketsTrimmedUnknownDescending ==
    /\ (Aggregated /\ Requested(YearPanels, "gender")) =>
          FreeFormBuckets(aggregated.val.genderData, COL_GENDER)
    /\ (Aggregated /\ Requested(YearPanels, "coat")) =>
          FreeFormBuckets(aggregated.val.coatData, COL_COAT)
    /\ (Aggregated /\ Requested(YearPanels, "breed")) =>
          FreeFormBuckets(aggregated.val.breedData, COL_BREED)

\* genders 牝, then 牡 with spaces around it, then 牡: 牡 comes first with 2;
\* the breeds are whitespace only, TB, TB: TB first with 2, then 未知 with 1
C22_Witness ==
    /\ Aggregated
    /\ Len(yearRows) = 3
    /\ Get(yearRows[1], COL_GENDER) = Str(<<"pin4">>)
    /\ Get(yearRows[2], COL_GENDER) = Str(<<" ", "mu3", " ">>)
    /\ aggregated.val.genderData =
          <<[name |-> <<"mu3">>, value |-> 2], [name |-> <<"pin4">>, value |-> 1]>>
    /\ aggregated.val.breedData =
          <<[name |-> <<"T", "B">>, value |-> 2], [name |-> UNKNOWN_VALUE, value |-> 1]>>

----------------------------------------------------------------------------
(* storage.js: the persisted state                                         *)
(* The item of localStorage is held parsed: null when there is no item, a  *)
(* JSON value otherwise, or Unparseable for a text JSON.parse throws on.   *)
(* An object is Object(props), props a function from its keys to values.   *)

Unparseable == [t |-> "unparseable"]
EmptyObject == Object(<<>>)

\* _isPlainObject of storage.js and of exchange-rate-service.js
_isPlainObject(x) == x.t = "object"

\* String(x || '').trim().toUpperCase() for a string, null or undefined
RECURSIVE ToUpperCase(_)
ToUpperCase(s) == IF s = <<>> THEN <<>> ELSE <<ToUpperChar(Head(s))>> \o ToUpperCase(Tail(s))
NormalizeCode(x) == IF IsString(x) THEN ToUpperCase(Trim(x.s)) ELSE <<>>

\* Number(x) for a number, null, undefined or a string
ToNumber(x) ==
    IF x.t = "number" THEN x
    ELSE IF x = Null THEN Num(0)
    ELSE IF IsString(x) /\ Trim(x.s) = <<>> THEN Num(0)
    ELSE IF IsString(x) /\ \A k \in 1..Len(Trim(x.s)) : Trim(x.s)[k] \in Digits
         THEN Num(DigitsToNumber(Trim(x.s), 1, Len(Trim(x.s))))
    ELSE NaN

\* what JSON.parse gives back of what JSON.stringify wrote of a value: a
\* number that is not finite is written null, an undefined property is left out
RECURSIVE JsonRoundTrip(_)
JsonRoundTrip(v) ==
    IF v.t = "number" THEN (IF IsFinite(v) THEN v ELSE Null)
    ELSE IF v.t = "object"
         THEN Object([k \in {j \in DOMAIN v.props : v.props[j] # Undefined} |->
                         JsonRoundTrip(v.props[k])])
    ELSE v

_defaultState == Object(("theme" :> Null) @@ ("exchangeRates" :> EmptyObject))

\* _loadState on the item
_loadState(item) ==
    IF item = Null \/ item = Unparseable THEN _defaultState
    ELSE IF ~_isPlainObject(item) THEN _defaultState
    ELSE Object(
           ("theme" :> IF IsString(Prop(item, "theme")) THEN Prop(item, "theme") ELSE Null)
           @@ ("exchangeRates" :> IF _isPlainObject(Prop(item, "exchangeRates"))
                                  THEN Prop(item, "exchangeRates") ELSE EmptyObject))

\* _saveState: the item after localStorage.setItem
_saveState(state) == JsonRoundTrip(state)

\* obj with obj[key] = value
WithProp(obj, key, value) ==
    Object([k \in (DOMAIN obj.props) \cup {key} |-> IF k = key THEN value ELSE obj.props[k]])

\* setTheme writing a new state: the entries of the item are not carried over
setTheme_FromDefaultState(item, theme) ==
    _saveState(WithProp(_defaultState, "theme", IF IsString(theme) THEN theme ELSE Null))

\* setTheme(theme): the item after the call
setTheme(item, theme) ==
    _saveState(WithProp(_loadState(item), "theme", IF IsString(theme) THEN theme ELSE Null))

\* getExchangeRatesEntry without the test age < 0
getExchangeRatesEntry_FutureAccepted(item, base, ttlMs, clock) ==
    LET b == NormalizeCode(base)
        entry == Prop(Prop(_loadState(item), "exchangeRates"), b)
        Fresh(fetchedAt) ==
            IF ttlMs.t = "number" /\ IsFinite(ttlMs) /\ ttlMs.n > 0
            THEN ~(clock - fetchedAt.n > ttlMs.n)
            ELSE TRUE
        Checked(fetchedAt, rates) ==
            IF ~IsFinite(fetchedAt) \/ fetchedAt.n <= 0 THEN Null
            ELSE IF ~_isPlainObject(rates) THEN Null
            ELSE IF ~Fresh(fetchedAt) THEN Null
            ELSE Object(("fetchedAt" :> fetchedAt) @@ ("rates" :> rates))
    IN  IF b = <<>> THEN Null
        ELSE IF ~_isPlainObject(entry) THEN Null
        ELSE Checked(ToNumber(Prop(entry, "fetchedAt")), Prop(entry, "rates"))

\* getExchangeRatesEntry(base, ttlMs) at the time clock
getExchangeRatesEntry(item, base, ttlMs, clock) ==
    LET b == NormalizeCode(base)
        entry == Prop(Prop(_loadState(item), "exchangeRates"), b)
        Fresh(fetchedAt) ==
            IF ttlMs.t = "number" /\ IsFinite(ttlMs) /\ ttlMs.n > 0
            THEN ~(clock - fetchedAt.n < 0 \/ clock - fetchedAt.n > ttlMs.n)
            ELSE TRUE
        Checked(fetchedAt, rates) ==
            IF ~IsFinite(fetchedAt) \/ fetchedAt.n <= 0 THEN Null
            ELSE IF ~_isPlainObject(rates) THEN Null
            ELSE IF ~Fresh(fetchedAt) THEN Null
            ELSE Object(("fetchedAt" :> fetchedAt) @@ ("rates" :> rates))
    IN  IF b = <<>> THEN Null
        ELSE IF ~_isPlainObject(entry) THEN Null
        ELSE Checked(ToNumber(Prop(entry, "fetchedAt")), Prop(entry, "rates"))

\* setExchangeRatesEntry(base, rates, fetchedAt) at the time clock: the item
\* after the call
setExchangeRatesEntry(item, base, rates, fetchedAt, clock) ==
    LET b == NormalizeCode(base)
        fa == IF fetchedAt = Undefined THEN Num(clock) ELSE ToNumber(fetchedAt)
        ts == IF IsFinite(fa) /\ fa.n > 0 THEN fa ELSE Num(clock)
        state == _loadState(item)
        entry == Object(("fetchedAt" :> ts) @@ ("rates" :> rates))
    IN  IF b = <<>> THEN item
        ELSE IF ~_isPlainObject(rates) THEN item
        ELSE _saveState(WithProp(state, "exchangeRates",
                                 WithProp(Prop(state, "exchangeRates"), b, entry)))

----------------------------------------------------------------------------
(* exchange-rate-service.js and exchange-rate-controller.js                *)
(* The codes of a call are held as a set: their order only orders the      *)
(* symbols of the request.                                                 *)

DEFAULT_TTL_MS == 24 * 60 * 60 * 1000

\* _toUpperCodes(codes)
_toUpperCodes(codes) == {NormalizeCode(c) : c \in codes} \ {<<>>}

\* v > 0 for a finite number
IsPositive(v) == IF "n" \in DOMAIN v THEN v.n > 0 ELSE ~v.neg /\ v.num # <<>>

\* 1 / v for a finite v > 0: Infinity when the quotient is beyond the largest
\* double, which has 309 digits
Reciprocal(v) ==
    LET Of(x) == IF Len(x.den) - Len(x.num) > 309 THEN PositiveInfinity
                 ELSE NumberDiv(Rate(1, 0), x)
    IN  Of(IF "n" \in DOMAIN v THEN NumberFromInt(v.n) ELSE v)

\* the loop of fetchLatestExchangeRatesFromFrankfurter over list: the object out
RatesOfResponse(b, list, apiRates) ==
    LET Valid(code) ==
            LET v == ToNumber(Prop(apiRates, code))
            IN  IsFinite(v) /\ IsPositive(v)
    IN  Object([code \in {b} \cup {c \in list : Valid(c)} |->
                   IF code = b THEN Rate(1, 0)
                   ELSE Reciprocal(ToNumber(Prop(apiRates, code)))])

\* the codes requested: _toUpperCodes(currencies).filter(c => c !== b)
RequestList(b, currencies) == _toUpperCodes(currencies) \ {b}

\* refreshExchangeRatesIfNeeded up to its await: the call a resolves at once,
\* to null without a base and to the cached rates when they are fresh, or
\* fetchLatestExchangeRatesFromFrankfurter is called, which sends a request
\* when there is a code to ask for
RefreshStart(item, a, clock) ==
    LET b == NormalizeCode(a.base)
        ttl == IF a.ttlMs = Undefined THEN Num(DEFAULT_TTL_MS) ELSE a.ttlMs
        cached == getExchangeRatesEntry(item, Str(b), ttl, clock)
    IN  IF b = <<>> THEN [pc |-> "resolved", result |-> Null, fetch |-> FALSE]
        ELSE IF ~a.force /\ cached # Null
             THEN [pc |-> "resolved", result |-> Prop(cached, "rates"), fetch |-> FALSE]
        ELSE [pc |-> "fetching", result |-> Null, fetch |-> TRUE]

\* fetchLatestExchangeRatesFromFrankfurter(b, currencies) from the settling of
\* fetch on: response is what fetch and res.json() gave
fetchLatestExchangeRatesFromFrankfurter(b, currencies, response) ==
    IF RequestList(b, currencies) = {} THEN Ok(Object((b :> Rate(1, 0))))
    ELSE IF response.kind \in {"network error", "timeout"} THEN Throw(response.kind)
    ELSE IF ~response.ok THEN Throw("rate api failed")
    ELSE IF ~_isPlainObject(response.json) \/ ~_isPlainObject(Prop(response.json, "rates"))
         THEN Throw("invalid rate api response")
    ELSE Ok(RatesOfResponse(b, RequestList(b, currencies), Prop(response.json, "rates")))

\* the try block that forgets the cache when the fetch fails
RefreshSettled_CacheForgotten(item, b, fetched, clock) ==
    IF ~fetched.ok THEN [result |-> Null, item |-> Null]
    ELSE [result |-> fetched.val,
          item |-> setExchangeRatesEntry(item, Str(b), fetched.val, Num(clock), clock)]

\* refreshExchangeRatesIfNeeded from the settling of
\* fetchLatestExchangeRatesFromFrankfurter on: what the call resolves to, and
\* the item after it
RefreshSettled(item, b, fetched, clock) ==
    IF ~fetched.ok THEN [result |-> Null, item |-> item]
    ELSE IF ~_isPlainObject(fetched.val) \/ Prop(fetched.val, b).t # "number"
         THEN [result |-> Null, item |-> item]
    ELSE [result |-> fetched.val,
          item |-> setExchangeRatesEntry(item, Str(b), fetched.val, Num(clock), clock)]

----------------------------------------------------------------------------
(* The persisted state and the rate refresh at work                        *)

THEME_DARK == <<"d", "a", "r", "k">>
THEME_LIGHT == <<"l", "i", "g", "h", "t">>

Entry(fetchedAt, rates) == Object(("fetchedAt" :> fetchedAt) @@ ("rates" :> rates))
StoredState(theme, entries) == Object(("theme" :> theme) @@ ("exchangeRates" :> Object(entries)))

\* a table a former refresh cached: 1 USD = 150 JPY
CachedRates == Object((JPY :> Rate(1, 0)) @@ (USD :> Rate(150, 0)))

\* the items the page can find: none, a text that is no JSON, states written
\* by the page at the times 1, 2 and 9, and states with a part that is not
\* what the page writes
StoredPool ==
    { Null,
      Unparseable,
      StoredState(Str(THEME_DARK), (JPY :> Entry(Num(2), CachedRates))),
      StoredState(Null, (JPY :> Entry(Num(9), CachedRates))
                          @@ (USD :> Entry(Num(1), Object((USD :> Rate(1, 0)))))),
      StoredState(Num(1), (JPY :> Entry(Null, CachedRates))),
      StoredState(Str(THEME_LIGHT), (JPY :> Entry(Num(2), Str(<<"x">>)))) }

\* the arguments of the calls tried
ThemeInputs == {Str(THEME_LIGHT), Null}
Base_jpy == Str(<<" ", "j", "p", "y">>)
EntryInputs ==
    { [base |-> Base_jpy, rates |-> CachedRates, fetchedAt |-> Undefined],
      [base |-> Base_jpy, rates |-> Object((USD :> PositiveInfinity)), fetchedAt |-> Num(1)],
      [base |-> Str(USD), rates |-> CachedRates, fetchedAt |-> Num(0)],
      [base |-> Base_jpy, rates |-> Null, fetchedAt |-> Undefined] }
SomeCodes == {Str(USD), Str(<<"h", "k", "d">>), Str(<<"j", "p", "y">>)}
RefreshInputs ==
    { [base |-> Base_jpy, currencies |-> SomeCodes, ttlMs |-> Undefined, force |-> FALSE],
      [base |-> Base_jpy, currencies |-> SomeCodes, ttlMs |-> Num(2), force |-> FALSE],
      [base |-> Base_jpy, currencies |-> SomeCodes, ttlMs |-> Num(0), force |-> FALSE],
      [base |-> Base_jpy, currencies |-> SomeCodes, ttlMs |-> Null, force |-> FALSE],
      [base |-> Base_jpy, currencies |-> SomeCodes, ttlMs |-> Num(2), force |-> TRUE],
      [base |-> Str(USD), currencies |-> {Str(USD)}, ttlMs |-> Undefined, force |-> FALSE],
      [base |-> Str(<<" ">>), currencies |-> SomeCodes, ttlMs |-> Undefined, force |-> TRUE] }

\* the rates objects the rate service can answer with: 1 JPY in the other
\* currencies, a currency left out, a zero, a text and a negative rate
OtherCodes == (DOMAIN StaticRates) \ {JPY}
ApiRatesPool ==
    { Object([c \in OtherCodes |-> Rate(65, 4)]),
      Object([c \in OtherCodes \ {HKD} |-> Rate(65, 4)]),
      Object([c \in OtherCodes |->
                 IF c = HKD THEN Rate(0, 0)
                 ELSE IF c = AUD THEN Str(<<"n", "/", "a">>)
                 ELSE IF c = USD THEN Number(TRUE, <<1>>, <<1>>)
                 ELSE Rate(65, 4)]) }

\* what the request can come to: it fails, it is aborted at the timeout, the
\* status is not ok, the body holds no rates object, the body holds one
FailedResponses ==
    { [kind |-> "network error"],
      [kind |-> "timeout"],
      [kind |-> "answer", ok |-> FALSE, json |-> EmptyObject],
      [kind |-> "answer", ok |-> TRUE, json |-> Object(("rates" :> Str(<<"x">>)))],
      [kind |-> "answer", ok |-> TRUE, json |-> Null] }
Responses ==
    FailedResponses
      \cup {[kind |-> "answer", ok |-> TRUE, json |-> Object(("rates" :> r))] : r \in ApiRatesPool}

\* how many writes, calls of the refresh and passings of time a run has
MaxSteps == 3

InitRates ==
    /\ MonthIdle
    /\ VizIdle
    /\ SortIdle
    /\ stored \in StoredPool
    /\ now = 3
    /\ rateCall = [pc |-> "idle", calls |-> 0]
    /\ updates = <<>>
    /\ writes = <<>>

ratesOtherVars == <<monthVars, vizVars, sortCall, heap, sortReturn, cellVars, appVars>>

\* how many steps of a millisecond or of a day lead from the time from to now
TicksSince(from, clock) ==
    ((clock - from) % DEFAULT_TTL_MS) + ((clock - from) \div DEFAULT_TTL_MS)

StepsTaken == Len(writes) + TicksSince(3, now) + rateCall.calls

\* setTheme(theme)
SetTheme ==
    /\ StepsTaken < MaxSteps
    /\ \E theme \in ThemeInputs :
          /\ stored' = setTheme(stored, theme)
          /\ writes' = Append(writes, [fn |-> "setTheme", theme |-> theme])
    /\ UNCHANGED <<ratesOtherVars, exchangeRates, now, rateCall, updates>>

\* setExchangeRatesEntry(base, rates, fetchedAt)
SetExchangeRatesEntry ==
    /\ StepsTaken < MaxSteps
    /\ \E e \in EntryInputs :
          /\ stored' = setExchangeRatesEntry(stored, e.base, e.rates, e.fetchedAt, now)
          /\ writes' = Append(writes, [fn |-> "setExchangeRatesEntry", base |-> e.base,
                                       rates |-> e.rates, fetchedAt |-> e.fetchedAt])
    /\ UNCHANGED <<ratesOtherVars, exchangeRates, now, rateCall, updates>>

\* time passes: a millisecond, or the time to live of the cache
Tick ==
    /\ StepsTaken < MaxSteps
    /\ now' \in {now + 1, now + DEFAULT_TTL_MS}
    /\ UNCHANGED <<ratesOtherVars, exchangeRates, stored, rateCall, updates, writes>>

\* a call of refreshExchangeRatesIfNeeded({ base, currencies, ttlMs, force })
CallRefresh ==
    /\ rateCall.pc \in {"idle", "resolved", "done"}
    /\ StepsTaken < MaxSteps
    /\ \E a \in RefreshInputs :
          LET Started(r) ==
                  rateCall' = [pc |-> r.pc, calls |-> rateCall.calls + 1,
                               args |-> a, by |-> "caller", fetch |-> r.fetch,
                               result |-> r.result, response |-> Null]
          IN  Started(RefreshStart(stored, a, now))
    /\ UNCHANGED <<ratesOtherVars, exchangeRates, stored, now, updates, writes>>

\* initExchangeRateController({ exchangeRatesConfig: CONFIG.exchangeRates, onUpdated })
InitExchangeRateController ==
    /\ rateCall.pc = "idle"
    /\ StepsTaken < MaxSteps
    /\ LET a == [base |-> Str(JPY), currencies |-> {Str(c) : c \in DOMAIN exchangeRates},
                 ttlMs |-> Undefined, force |-> TRUE]
           Started(r) ==
               rateCall' = [pc |-> r.pc, calls |-> rateCall.calls + 1,
                            args |-> a, by |-> "controller", fetch |-> r.fetch,
                            result |-> r.result, response |-> Null]
       IN  Started(RefreshStart(stored, a, now))
    /\ UNCHANGED <<ratesOtherVars, exchangeRates, stored, now, updates, writes>>

\* the request settles: fetchLatestExchangeRatesFromFrankfurter returns or
\* throws, the rates are cached, the call resolves
FetchSettled ==
    /\ rateCall.pc = "fetching"
    /\ \E response \in IF RequestList(NormalizeCode(rateCall.args.base),
                                       rateCall.args.currencies) = {}
                        THEN {Null} ELSE Responses :
          LET b == NormalizeCode(rateCall.args.base)
              Settled(r) ==
                  /\ stored' = r.item
                  /\ rateCall' = [rateCall EXCEPT !.pc = "resolved", !.result = r.result,
                                                  !.response = response]
          IN  Settled(RefreshSettled(stored, b,
                         fetchLatestExchangeRatesFromFrankfurter(b, rateCall.args.currencies,
                                                                 response),
                         now))
    /\ UNCHANGED <<ratesOtherVars, exchangeRates, now, updates, writes>>

\* the then-callback of the controller
ControllerThen ==
    /\ rateCall.pc = "resolved"
    /\ rateCall.by = "controller"
    /\ rateCall' = [rateCall EXCEPT !.pc = "done"]
    /\ IF rateCall.result = Null
       THEN /\ updates' = Append(updates, Null)
            /\ UNCHANGED exchangeRates
       ELSE /\ exchangeRates' = rateCall.result.props
            /\ updates' = Append(updates, rateCall.result)
    /\ UNCHANGED <<ratesOtherVars, stored, now, writes>>

NextRates ==
    \/ SetTheme
    \/ SetExchangeRatesEntry
    \/ Tick
    \/ CallRefresh
    \/ InitExchangeRateController
    \/ FetchSettled
    \/ ControllerThen

SpecRates == InitRates /\ [][NextRates]_vars

\* What the claims say of the persisted state, read off the item itself.

\* the stored theme and the stored entries, base by base
StoredTheme(item) ==
    IF item \in {Null, Unparseable} THEN Null
    ELSE IF "theme" \in DOMAIN item.props THEN item.props["theme"] ELSE Null
StoredEntries(item) ==
    IF item \in {Null, Unparseable} THEN <<>> ELSE item.props["exchangeRates"].props

\* an entry as the page writes it
WellFormedEntry(entry) ==
    /\ entry.t = "object"
    /\ DOMAIN entry.props = {"fetchedAt", "rates"}
    /\ entry.props["fetchedAt"].t = "number"
    /\ IsFinite(entry.props["fetchedAt"])
    /\ entry.props["fetchedAt"].n > 0
    /\ entry.props["rates"].t = "object"

\* a state as the page writes it, or nothing stored yet
WellFormedStore(item) ==
    \/ item = Null
    \/ /\ item.t = "object"
       /\ DOMAIN item.props = {"theme", "exchangeRates"}
       /\ item.props["theme"] = Null \/ item.props["theme"].t = "string"
       /\ item.props["exchangeRates"].t = "object"
       /\ \A b \in DOMAIN item.props["exchangeRates"].props :
             WellFormedEntry(item.props["exchangeRates"].props[b])

\* the call of storage.js this step makes
Wrote(fn) ==
    /\ Len(writes') = Len(writes) + 1
    /\ writes'[Len(writes')].fn = fn
LastWrite == writes'[Len(writes')]

\* C30: given a well-formed stored state, setTheme changes only the stored
\* theme and leaves every stored exchange-rate entry as it was, and
\* setExchangeRatesEntry(base, rates) changes only the entry of that base
\* and leaves the stored theme and the entry of every other base as they
\* were, under any sequence of the two operations.
C30_StorageWritesAreFramed ==
    [][   /\ (Wrote("setTheme") /\ WellFormedStore(stored)) =>
                /\ StoredEntries(stored') = StoredEntries(stored)
                /\ StoredTheme(stored') =
                      (IF LastWrite.theme.t = "string" THEN LastWrite.theme ELSE Null)
          /\ (Wrote("setExchangeRatesEntry") /\ WellFormedStore(stored)) =>
                /\ StoredTheme(stored') = StoredTheme(stored)
                /\ \A b \in (DOMAIN StoredEntries(stored) \cup DOMAIN StoredEntries(stored'))
                              \ {ToUpperCase(Trim(LastWrite.base.s))} :
                      /\ b \in DOMAIN StoredEntries(stored)
                      /\ b \in DOMAIN StoredEntries(stored')
                      /\ StoredEntries(stored')[b] = StoredEntries(stored)[b]
          /\ WellFormedStore(stored) => WellFormedStore(stored')]_vars

\* the theme dark and an entry of JPY are stored, an entry of USD has been
\* written and then the theme light: the entry of JPY is the one of the
\* start, the entry of USD the one written
C30_Witness ==
    /\ Len(writes) = 2
    /\ writes[1].fn = "setExchangeRatesEntry" /\ writes[1].base = Str(USD)
    /\ writes[2].fn = "setTheme" /\ writes[2].theme = Str(THEME_LIGHT)
    /\ StoredTheme(stored) = Str(THEME_LIGHT)
    /\ DOMAIN StoredEntries(stored) = {JPY, USD}
    /\ StoredEntries(stored)[JPY] = Entry(Num(2), CachedRates)
    /\ StoredEntries(stored)[USD].props["rates"] = CachedRates

\* the step in which the request of the call under way settles, and the
\* step in which it settles as a failure: no answer, an abort at the timeout,
\* a status that is not ok, a body without a rates object
Settles == rateCall.pc = "fetching" /\ rateCall'.pc = "resolved"
FetchFails ==
    /\ Settles
    /\ rateCall'.response # Null
    /\ \/ rateCall'.response.kind \in {"network error", "timeout"}
       \/ ~rateCall'.response.ok
       \/ rateCall'.response.json = Null
       \/ Get(rateCall'.response.json.props, "rates").t # "object"
ControllerCalledBack == rateCall.pc = "resolved" /\ rateCall'.pc = "done"

\* C23: a failed exchange-rate refresh changes nothing: when the fetch fails,
\* refreshExchangeRatesIfNeeded resolves to null and leaves the stored cache
\* as it was, and the controller leaves CONFIG.exchangeRates.rates at its
\* previous, static value and calls onUpdated exactly once, with rates null.
C23_FailedRefreshChangesNothing ==
    [][   /\ FetchFails =>
                /\ rateCall'.result = Null
                /\ stored' = stored
                /\ exchangeRates' = exchangeRates
                /\ updates' = updates
          /\ (ControllerCalledBack /\ rateCall.result = Null) =>
                /\ exchangeRates' = exchangeRates
                /\ exchangeRates' = StaticRates
                /\ updates' = <<Null>>
                /\ stored' = stored
          /\ (rateCall'.pc = "done" /\ rateCall'.result = Null) => updates' = <<Null>>]_vars

\* the page was opened with rates cached at the time 2, the request was
\* aborted at the timeout: the cache holds the entry of the time 2, the
\* table is the static one and onUpdated was called once, with null
C23_Witness ==
    /\ rateCall.pc = "done"
    /\ rateCall.by = "controller"
    /\ rateCall.response = [kind |-> "timeout"]
    /\ updates = <<Null>>
    /\ exchangeRates = StaticRates
    /\ stored = StoredState(Str(THEME_DARK), (JPY :> Entry(Num(2), CachedRates)))

\* the step that calls refreshExchangeRatesIfNeeded with a base, the base and
\* the time to live of the call, the default one when none is given
CallStarts ==
    /\ rateCall'.calls = rateCall.calls + 1
    /\ Trim(rateCall'.args.base.s) # <<>>
CalledBase == ToUpperCase(Trim(rateCall'.args.base.s))
CalledTtl ==
    IF rateCall'.args.ttlMs = Undefined THEN Num(24 * 60 * 60 * 1000) ELSE rateCall'.args.ttlMs
TtlIsNumber == CalledTtl.t = "number" /\ IsFinite(CalledTtl)

\* a well-formed entry of the base is stored
EntryStored ==
    /\ CalledBase \in DOMAIN StoredEntries(stored)
    /\ WellFormedEntry(StoredEntries(stored)[CalledBase])
AgeOfEntry == now - StoredEntries(stored)[CalledBase].props["fetchedAt"].n

\* the call returns the cached rates and no fetch is made
ReturnsCached ==
    /\ rateCall'.pc = "resolved"
    /\ ~rateCall'.fetch
    /\ CalledBase \in DOMAIN StoredEntries(stored)
    /\ rateCall'.result = StoredEntries(stored)[CalledBase].props["rates"]

\* the fetch succeeded, and the entry of the base is stamped with the time
FetchOverwrites ==
    (Settles /\ rateCall'.result # Null) =>
        LET b == ToUpperCase(Trim(rateCall.args.base.s))
        IN  /\ b \in DOMAIN StoredEntries(stored')
            /\ StoredEntries(stored')[b].props["fetchedAt"] = Num(now)

\* what C24 says of a call, fresh being when the cached rates are to be used
TtlHonoured(fresh) ==
    /\ CallStarts =>
          /\ ~rateCall'.args.force => (ReturnsCached <=> fresh)
          /\ (~rateCall'.args.force /\ ~fresh) => rateCall'.fetch
          /\ rateCall'.args.force => rateCall'.fetch
    /\ FetchOverwrites

C24_FreshWitness ==
    /\ rateCall.pc = "resolved"
    /\ rateCall.args.force = FALSE
    /\ rateCall.args.ttlMs = Num(2)
    /\ ~rateCall.fetch
    /\ rateCall.result = CachedRates
    /\ now = 4

\* the same entry and ttlMs = 0: the cached rates are returned a day later
C24_ZeroTtlWitness ==
    /\ rateCall.pc = "resolved"
    /\ rateCall.args.force = FALSE
    /\ rateCall.args.ttlMs = Num(0)
    /\ ~rateCall.fetch
    /\ rateCall.result = CachedRates
    /\ now > DEFAULT_TTL_MS

\* the step in which the controller is handed the rates of a successful
\* refresh, and the codes with a numeric rate in a rate table
RefreshSucceeds == ControllerCalledBack /\ rateCall.result # Null
NumericCodes(rates) == {c \in DOMAIN rates : rates[c].t = "number"}

\* C27: a successful exchange-rate refresh never removes a currency from the
\* live rate table: every code with a numeric rate in CONFIG.exchangeRates.rates
\* before the refresh has a numeric rate after it, also when the answer omits
\* the code or gives it a non-positive or non-numeric value, so no money value
\* that could be converted before the refresh is unparseable after it.
C27_RefreshKeepsEveryCurrency ==
    [][RefreshSucceeds =>
          /\ NumericCodes(exchangeRates) \subseteq NumericCodes(exchangeRates')
          /\ \A raw \in {Str(Chars_1_5_yi_HKD), Str(Chars_3_wan_USD),
                        Str(Chars_467_4_wan_ri_yuan)} :
                _moneyToBaseOrNull(raw, exchangeRates) # Null
                   => _moneyToBaseOrNull(raw, exchangeRates') # Null]_vars

\* the page was opened and the answer gave every code but HKD a rate: the
\* table the controller installed has no HKD, and 1.5亿HKD converts no more
C27_HKDLostWitness ==
    /\ rateCall.pc = "done"
    /\ rateCall.by = "controller"
    /\ rateCall.result # Null
    /\ HKD \in NumericCodes(StaticRates)
    /\ HKD \notin DOMAIN exchangeRates
    /\ _moneyToBaseOrNull(Str(Chars_1_5_yi_HKD), StaticRates) # Null
    /\ _moneyToBaseOrNull(Str(Chars_1_5_yi_HKD), exchangeRates) = Null

====
